---- MODULE Spec2Model ----
(***************************************************************************)
(* pacfetch: the database cache (DbCache), the headless database sync of   *)
(* calculate_upgrade_stats_with_sync and the interactive PTY driver        *)
(* run_pacman_pty, all of src/src/pacman.rs.                               *)
(*                                                                         *)
(* Three specifications share the variables:                               *)
(*   Spec       invocations of calculate_upgrade_stats_with_sync           *)
(*   SpecFresh  DbCache::is_fresh applied to enumerated file states        *)
(*   SpecPty    one session of run_pacman_pty against a scripted child     *)
(*                                                                         *)
(* Time is counted in ticks, TicksPerSec of them to the second, so that    *)
(* Duration::as_secs truncates as it does in the code.  Text is a string,  *)
(* taken apart with Head, Tail, SubSeq and Len; the two control characters *)
(* the code names are written ESC and BEL.                                 *)
(***************************************************************************)
EXTENDS Integers, Sequences, FiniteSets, TLC

\* ------------------------------------------------------------------ bounds

\* Resolution of the clock: ticks per second.
TicksPerSec == 2
\* Advances of the clock in one behaviour.
MaxTicks == 2
\* Writes of the headless sync child to its terminal in one run.
MaxChildOut == 1
\* Largest package count calculate_upgrade_stats reports.
MaxPkgs == 1
\* Largest configured TTL, in minutes.
MaxTtl == 2
\* lines fed to a SyncProgress
MaxLines == 4
\* characters of an input of strip_ansi
MaxStripLen == 3

\* ------------------------------------------------------- program constants

\* `ttl_minutes as u64 * 60`
SecsPerMin == 60
\* `let mut buf = [0u8; 1024]`
BufSize == 1024

Absent == -1

\* required_dbs, in the order is_fresh and touch walk them
RequiredDbs == <<"core.db", "extra.db", "multilib.db">>

DbFiles == {RequiredDbs[i] : i \in 1..Len(RequiredDbs)}

Min(a, b) == IF a < b THEN a ELSE b

\* -------------------------------------------------------------------- text

\* '\x1b' and '\x07', which a TLA+ string cannot hold, are written # and !.
ESC == "#"

BEL == "!"

\* char::is_whitespace, of the characters the model's text holds
Whitespace == {" ", "\t", "\n", "\r", "\f"}

\* ('@'..='~'), but for the grave accent, which a TLA+ string cannot hold
\* and the model's text never contains
CsiFinalChars ==
    "@ABCDEFGHIJKLMNOPQRSTUVWXYZ[\\]^_abcdefghijklmnopqrstuvwxyz{|}~"

CsiFinal == {SubSeq(CsiFinalChars, i, i) : i \in 1..Len(CsiFinalChars)}

\* str::contains
Contains(s, sub) ==
    \E i \in 1..(Len(s) - Len(sub) + 1) : SubSeq(s, i, i + Len(sub) - 1) = sub

\* str::ends_with
EndsWith(s, suffix) ==
    /\ Len(s) >= Len(suffix)
    /\ SubSeq(s, Len(s) - Len(suffix) + 1, Len(s)) = suffix

\* str::starts_with
StartsWith(s, prefix) ==
    /\ Len(s) >= Len(prefix)
    /\ SubSeq(s, 1, Len(prefix)) = prefix

RECURSIVE TrimStart(_)
TrimStart(s) ==
    IF s # "" /\ Head(s) \in Whitespace THEN TrimStart(Tail(s)) ELSE s

RECURSIVE TrimEnd(_)
TrimEnd(s) ==
    IF s # "" /\ SubSeq(s, Len(s), Len(s)) \in Whitespace
      THEN TrimEnd(SubSeq(s, 1, Len(s) - 1))
      ELSE s

\* str::trim
Trim(s) == TrimEnd(TrimStart(s))

\* `for nc in chars.by_ref() { if ('@'..='~').contains(&nc) { break; } }`:
\* what is left after the final character of a CSI sequence
RECURSIVE AfterCsi(_)
AfterCsi(s) ==
    IF s = "" THEN ""
    ELSE IF Head(s) \in CsiFinal THEN Tail(s)
    ELSE AfterCsi(Tail(s))

\* The loop of the OSC arm: up to BEL, or up to ESC and a backslash after it
RECURSIVE AfterOsc(_)
AfterOsc(s) ==
    IF s = "" THEN ""
    ELSE IF Head(s) = BEL THEN Tail(s)
    ELSE IF Head(s) = ESC
           THEN IF Tail(s) # "" /\ Head(Tail(s)) = "\\"
                  THEN Tail(Tail(s))
                  ELSE Tail(s)
    ELSE AfterOsc(Tail(s))

\* strip_ansi that keeps an ESC that ends the input.
RECURSIVE strip_ansi_keeps_last(_)
strip_ansi_keeps_last(s) ==
    IF s = "" THEN ""
    ELSE IF Head(s) # ESC THEN Head(s) \o strip_ansi_keeps_last(Tail(s))
    ELSE LET rest == Tail(s) IN
         IF rest = "" THEN ESC
         ELSE IF Head(rest) = "["
                THEN strip_ansi_keeps_last(AfterCsi(Tail(rest)))
         ELSE IF Head(rest) = "]"
                THEN strip_ansi_keeps_last(AfterOsc(Tail(rest)))
         ELSE strip_ansi_keeps_last(Tail(rest))

\* util::strip_ansi
RECURSIVE strip_ansi(_)
strip_ansi(s) ==
    IF s = "" THEN ""
    ELSE IF Head(s) # ESC THEN Head(s) \o strip_ansi(Tail(s))
    ELSE LET rest == Tail(s) IN
         IF rest = "" THEN ""
         ELSE IF Head(rest) = "[" THEN strip_ansi(AfterCsi(Tail(rest)))
         ELSE IF Head(rest) = "]" THEN strip_ansi(AfterOsc(Tail(rest)))
         ELSE strip_ansi(Tail(rest))

\* filter_upgrade_line without the trim.
filter_upgrade_line_untrimmed(line) ==
    LET clean == strip_ansi(line) IN
    /\ clean # ""
    /\ ~Contains(clean, "Total Download Size:")
    /\ ~Contains(clean, "Total Installed Size:")
    /\ ~Contains(clean, "Net Upgrade Size:")
    /\ ~Contains(clean, "resolving dependencies")
    /\ ~Contains(clean, "looking for conflicting packages")
    /\ ~Contains(clean, ":: Starting full system upgrade...")

\* filter_upgrade_line: TRUE when the line is to be printed
filter_upgrade_line(line) ==
    LET trimmed == Trim(strip_ansi(line)) IN
    /\ trimmed # ""
    /\ ~Contains(trimmed, "Total Download Size:")
    /\ ~Contains(trimmed, "Total Installed Size:")
    /\ ~Contains(trimmed, "Net Upgrade Size:")
    /\ ~Contains(trimmed, "resolving dependencies")
    /\ ~Contains(trimmed, "looking for conflicting packages")
    /\ ~Contains(trimmed, ":: Starting full system upgrade...")

\* should_print that lets nothing through.
should_print_never(line, flt) == FALSE

should_print(line, flt) == IF flt THEN filter_upgrade_line(line) ELSE TRUE

\* The prompt shape run_pacman_pty tests the unterminated buffer for.
IsPrompt(buf) ==
    \/ EndsWith(buf, "[Y/n] ")
    \/ (Contains(buf, "::") /\ EndsWith(buf, "]: "))

\* str::split_whitespace, collected: the tokens of s, with acc the token
\* being read
RECURSIVE SplitFrom(_, _)
SplitFrom(s, acc) ==
    IF s = "" THEN (IF acc = "" THEN <<>> ELSE <<acc>>)
    ELSE IF Head(s) \in Whitespace
           THEN (IF acc = "" THEN <<>> ELSE <<acc>>) \o SplitFrom(Tail(s), "")
    ELSE SplitFrom(Tail(s), acc \o Head(s))

split_whitespace(s) == SplitFrom(s, "")

Digits == "0123456789"

IsDigit(ch) == \E i \in 1..Len(Digits) : SubSeq(Digits, i, i) = ch

DigitValue(ch) == (CHOOSE i \in 1..Len(Digits) : SubSeq(Digits, i, i) = ch) - 1

\* u8::MAX
U8Max == 255

NoParse == -1

\* The value of a string of digits read after the value acc, or NoParse when
\* a character is no digit or the value passes u8::MAX
RECURSIVE ParseDigits(_, _)
ParseDigits(s, acc) ==
    IF s = "" THEN acc
    ELSE IF ~IsDigit(Head(s)) THEN NoParse
    ELSE LET v == acc * 10 + DigitValue(Head(s)) IN
         IF v > U8Max THEN NoParse ELSE ParseDigits(Tail(s), v)

\* str::parse::<u8>: digits behind an optional plus sign, at least one, and
\* a value of at most u8::MAX; NoParse stands for the Err
parse_u8(s) ==
    LET digits == IF s # "" /\ Head(s) = "+" THEN Tail(s) ELSE s IN
    IF digits = "" THEN NoParse ELSE ParseDigits(digits, 0)

\* --------------------------------------------------------------- variables

VARIABLES
    \* the environment of the cache
    now,            \* the system clock, in ticks
    ticks,          \* how many times the clock advanced
    ttl,            \* config.cache.ttl_minutes
    sysdb,          \* /var/lib/pacman/sync: file -> mtime, or Absent
    cache,          \* ~/.cache/pacfetch/sync: file -> mtime, or Absent
    dirExists,      \* ~/.cache/pacfetch/sync exists
    linkExists,     \* ~/.cache/pacfetch/local exists
    \* calculate_upgrade_stats_with_sync
    pc,             \* where the invocation stands
    childAlive,     \* the sync child runs
    hpty,           \* what the sync child wrote and the loop has not read
    childOut,       \* how many times the sync child wrote to its terminal
    childWrote,     \* the sync child has written its databases
    sline_buffer,   \* line_buffer of the headless loop
    fed,            \* the lines handed to progress.update_from_line
    sync_success,
    lastRead,       \* the result of try_read in this iteration
    endReason,      \* why the loop ended
    result,         \* the UpgradeStats returned
    \* history of the invocation
    newFailed,      \* DbCache::new returned None
    freshAtStart,   \* what is_fresh answered
    cacheAtStart,   \* the cached files when is_fresh was asked
    copied,         \* copy_system_dbs ran
    spawned,        \* expectrl::spawn was called
    touched,        \* touch ran
    calcPath,       \* the dbpath calculate_upgrade_stats was given
    syncedAt,       \* the clock at the last touch, or Absent
    \* DbCache::is_fresh alone
    fpc,            \* "ready" for a call, or "evaluated"
    fresh_result,   \* what the last call returned
    fchange,        \* what happened to a file since the call before
    \* run_pacman_pty and its child
    filter,         \* the parameter `filter`
    script,         \* what the child does: its writes and its reads of input
    cpos,           \* the step of the script the child is at
    palive,         \* the child runs
    ptyq,           \* what the child wrote and the driver has not read
    childIn,        \* lines sent to the child that it has not read
    ppc,            \* where run_pacman_pty stands
    process_exited,
    raw_mode,
    line_buffer,
    chunk,          \* what is left of the chunk the for loop walks
    out,            \* what was written to stdout, in order
    ptyEnd,         \* why the loop ended
    presult,        \* what run_pacman_pty returned
    \* history of the session
    emitted,        \* everything the child wrote
    readCount,      \* how many characters try_read has returned
    lineFed,        \* the last position of the child's output the for loop took
    answeredAt,     \* the position of the child's output the first answered
                    \* prompt ended at, or 0
    promptSteps,    \* how many times the prompt step ran
    stdinReads,     \* how many times stdin was read
    stdinFailed     \* a read of stdin failed

\* upgrade_system and sync_databases
VARIABLES
    command,        \* the operation called, or "none"
    euid_root,      \* util::is_root()
    sync_first,     \* upgrade_system's sync_first
    debug,          \* upgrade_system's debug
    cpc,            \* where the operation is
    cresult,        \* what it returned: "none" until it has
    spawnCount,     \* children spawned by run_pacman_sync, failed spawns too
    statsGathered,  \* get_stats was called
    displayed       \* how the stats were displayed, or "none"

\* SyncProgress
VARIABLES
    progress,       \* the tracker: core, extra, multilib
    prev_progress,  \* the tracker before the last update_from_line
    tlines          \* the lines it was given, in order

\* util::strip_ansi
VARIABLES
    sa_in,          \* the string given
    sa_out,         \* the string returned
    sa_pc           \* "ready", then "done"; "off" when there is no call

\* check_mirror_sync
VARIABLES
    mpc,            \* where the call is; "off" when there is none
    mnow,           \* Local::now().timestamp()
    attempt,        \* the attempt of the find_map
    sends,          \* the outcome of each request sent, in order
    response,       \* the response the find_map found, or NoResponse
    mresult         \* "none" until the call returns, then MirrorNone or an age

\* calculate_upgrade_stats
VARIABLES
    tpc,            \* where the call is; "off" when there is none
    dbpath,         \* the database path given
    trans,          \* the transaction of the handle: held, and how often it
                    \* was initialised, released, released while not held
    to_add,         \* what is left of alpm.trans_add()
    to_remove,      \* alpm.trans_remove()
    sums,           \* package_count and the three sizes, in bytes
    tresult         \* "none" until the call returns, then the UpgradeStats

\* stats_to_json_string
VARIABLES
    jstats,         \* the PacmanStats given
    json,           \* the object returned: its keys and their values
    jpc             \* "ready", then "done"; "off" when there is no call

\* DbCache::new, called again and again
VARIABLES
    hasCacheDir,    \* Config::cache_dir() is Some
    dirThere,       \* ~/.cache/pacfetch/sync exists
    linkThere,      \* ~/.cache/pacfetch/local exists, as a symlink
    targetThere,    \* /var/lib/pacman/local exists
    linksMade,      \* the calls of symlink() that succeeded
    newCalls,       \* the calls of DbCache::new so far
    newResults      \* what the calls returned, in order: "Some" or "None"

\* get_stats and its mirror probe
VARIABLES
    gpc,            \* where get_stats is: "off" when there is no call
    requested,      \* the stats asked for
    gstats,         \* `stats`, the PacmanStats being filled
    probe,          \* the probe thread: "none", "spawned", "checking",
                    \* "done" or "panicked"
    probeUrl,       \* mirror_url_clone, moved into the thread
    probeOut        \* what the closure of the thread returned

cacheVars == <<now, ticks, ttl, sysdb, cache, dirExists, linkExists>>

runVars == <<pc, childAlive, hpty, childOut, childWrote, sline_buffer, fed,
             sync_success, lastRead, endReason, result>>

histVars == <<newFailed, freshAtStart, cacheAtStart, copied, spawned,
              touched, calcPath, syncedAt>>

freshVars == <<fpc, fresh_result, fchange>>

ptyVars == <<filter, script, cpos, palive, ptyq, childIn, ppc, process_exited,
             raw_mode, line_buffer, chunk, out, ptyEnd, presult>>

ptyHist == <<emitted, readCount, lineFed, answeredAt, promptSteps, stdinReads,
             stdinFailed>>

cmdVars == <<command, euid_root, sync_first, debug, cpc, cresult, spawnCount,
             statsGathered, displayed>>

trackerVars == <<progress, prev_progress, tlines>>

stripVars == <<sa_in, sa_out, sa_pc>>

\* The variables of the parts that follow the tracker.
mirrorVars == <<mpc, mnow, attempt, sends, response, mresult>>

transVars == <<tpc, dbpath, trans, to_add, to_remove, sums, tresult>>

jsonVars == <<jstats, json, jpc>>

newVars == <<hasCacheDir, dirThere, linkThere, targetThere, linksMade,
            newCalls, newResults>>

getVars == <<gpc, requested, gstats, probe, probeUrl, probeOut>>

restVars == <<stripVars, mirrorVars, transVars, jsonVars, newVars, getVars>>

laterVars == <<cmdVars, trackerVars, restVars>>

vars == <<cacheVars, runVars, histVars, freshVars, ptyVars, ptyHist,
          laterVars>>

\* ------------------------------------------------------------ SyncProgress

\* DbSyncState::Syncing(pct)
Syncing(pct) == [state |-> "Syncing", pct |-> pct]

\* DbSyncState::Complete
Complete == [state |-> "Complete"]

DbNames == {"core", "extra", "multilib"}

\* SyncProgressNew with the three complete from the start.
SyncProgressNewComplete == [n \in DbNames |-> Complete]

\* SyncProgress::new
SyncProgressNew == [n \in DbNames |-> Syncing(0)]

\* The check mark of format_state, which a TLA+ string cannot hold.
CheckMark == "v"

\* SyncProgress::format_state
format_state(st) ==
    IF st.state = "Syncing" THEN ToString(st.pct) \o "%" ELSE CheckMark

\* SyncProgress::format
format(self) ==
    "core " \o format_state(self["core"])
        \o " | extra " \o format_state(self["extra"])
        \o " | multilib " \o format_state(self["multilib"])

\* StateOfPct with 100 still syncing.
StateOfPctOver100(pct) == IF pct > 100 THEN Complete ELSE Syncing(pct)

\* StateOfPct with 99 taken for complete.
StateOfPctFrom99(pct) == IF pct >= 99 THEN Complete ELSE Syncing(pct)

\* `if pct >= 100 { Complete } else { Syncing(pct) }`
StateOfPct(pct) == IF pct >= 100 THEN Complete ELSE Syncing(pct)

\* str::strip_suffix('%'), on a string that ends with it
StripPercent(s) == SubSeq(s, 1, Len(s) - 1)

\* SyncProgress::update_from_line: the tracker after the line
update_from_line(self, line) ==
    LET trimmed == Trim(strip_ansi(line)) IN
    IF Contains(trimmed, "is up to date")
      THEN IF StartsWith(trimmed, "core")
             THEN [self EXCEPT !["core"] = Complete]
           ELSE IF StartsWith(trimmed, "extra")
             THEN [self EXCEPT !["extra"] = Complete]
           ELSE IF StartsWith(trimmed, "multilib")
             THEN [self EXCEPT !["multilib"] = Complete]
           ELSE self
      ELSE LET parts == split_whitespace(trimmed) IN
           IF Len(parts) >= 2
             THEN LET db_name == parts[1]
                      last == parts[Len(parts)]
                  IN IF EndsWith(last, "%")
                          /\ parse_u8(StripPercent(last)) # NoParse
                       THEN IF db_name \in DbNames
                              THEN [self EXCEPT ![db_name] =
                                      StateOfPct(parse_u8(StripPercent(last)))]
                              ELSE self
                       ELSE self
             ELSE self

\* ------------------------------------------------------------ UpgradeStats

\* UpgradeStats::default(): no sizes, zero packages
UpgradeStatsDefault == [sizes |-> FALSE, package_count |-> 0]

NoResult == [sizes |-> FALSE, package_count |-> -1]

\* What calculate_upgrade_stats can return: the default on any libalpm
\* failure, otherwise the three sizes and the number of packages.
CalcOutcomes ==
    {UpgradeStatsDefault}
        \cup {[sizes |-> TRUE, package_count |-> n] : n \in 0..MaxPkgs}

CachePath == "~/.cache/pacfetch"

SystemPath == "/var/lib/pacman"

\* ----------------------------------------------------------------- DbCache

\* age.as_secs(): a Duration in ticks, in whole seconds
AsSecs(d) == d \div TicksPerSec

\* StaleDb with the age compared by >= in place of >.
StaleDbAtTtl(mtime, ttl_minutes, clock) ==
    \/ mtime = Absent
    \/ mtime > clock
    \/ AsSecs(clock - mtime) >= ttl_minutes * SecsPerMin

\* One file of the loop of is_fresh: TRUE when the loop returns false at it.
\* fs::metadata fails on a missing file; modified.elapsed() fails when the
\* modification time is later than the clock.
StaleDb(mtime, ttl_minutes, clock) ==
    \/ mtime = Absent
    \/ mtime > clock
    \/ AsSecs(clock - mtime) > ttl_minutes * SecsPerMin

RECURSIVE AllFreshFrom(_, _, _, _)
AllFreshFrom(i, files, ttl_minutes, clock) ==
    IF i > Len(RequiredDbs) THEN TRUE
    ELSE IF StaleDb(files[RequiredDbs[i]], ttl_minutes, clock) THEN FALSE
    ELSE AllFreshFrom(i + 1, files, ttl_minutes, clock)

\* IsFresh without the early return on a TTL of zero.
IsFreshNoZeroCheck(files, ttl_minutes, clock) ==
    AllFreshFrom(1, files, ttl_minutes, clock)

IsFresh(files, ttl_minutes, clock) ==
    IF ttl_minutes = 0 THEN FALSE
    ELSE AllFreshFrom(1, files, ttl_minutes, clock)

\* ShouldCopy that copies every source there is.
ShouldCopyAlways(src, dest) == src # Absent

\* should_copy of copy_system_dbs: Option ordering puts a readable source
\* time above an unreadable destination time.
ShouldCopy(src, dest) ==
    IF src # Absent /\ dest # Absent THEN src > dest
    ELSE src # Absent

\* copy_system_dbs: every *.db of the system directory, with copy_mtime
CopySystemDbs(sys, files) ==
    [f \in DOMAIN files |->
        IF ShouldCopy(sys[f], files[f]) THEN sys[f] ELSE files[f]]

\* touch: utimensat(UTIME_NOW) on the three files, its failure on a missing
\* file ignored
Touch(files, clock) ==
    [f \in DOMAIN files |-> IF files[f] = Absent THEN Absent ELSE clock]

\* ------------------------------------------------------------ the clock

\* Time passes once the invocation has returned: by one tick, or by a
\* minute.  (An invocation is short against a TTL counted in minutes.)
Tick ==
    /\ pc = "returned"
    /\ ticks < MaxTicks
    /\ \E d \in {1, SecsPerMin * TicksPerSec} : now' = now + d
    /\ ticks' = ticks + 1
    /\ UNCHANGED <<ttl, sysdb, cache, dirExists, linkExists>>
    /\ UNCHANGED <<runVars, histVars, freshVars, ptyVars, ptyHist>>
    /\ UNCHANGED laterVars

\* ------------------------------------- calculate_upgrade_stats_with_sync

\* The locals of an invocation, and its history, before it starts.
InitRun ==
    /\ pc = "idle"
    /\ childAlive = FALSE
    /\ hpty = ""
    /\ childOut = 0
    /\ childWrote = FALSE
    /\ sline_buffer = ""
    /\ fed = <<>>
    /\ sync_success = FALSE
    /\ lastRead = "none"
    /\ endReason = "none"
    /\ result = NoResult
    /\ newFailed = FALSE
    /\ freshAtStart = FALSE
    /\ cacheAtStart = [f \in DbFiles |-> Absent]
    /\ copied = FALSE
    /\ spawned = FALSE
    /\ touched = FALSE
    /\ calcPath = "none"

\* The function is entered (get_stats with fresh_sync).
Invoke ==
    /\ pc = "idle"
    /\ pc' = "new"
    /\ UNCHANGED <<childAlive, hpty, childOut, childWrote, sline_buffer,
                   fed, sync_success, lastRead, endReason, result>>
    /\ UNCHANGED <<cacheVars, histVars, freshVars, ptyVars, ptyHist>>
    /\ UNCHANGED laterVars

\* What DbCache::new can meet: no cache directory is known, create_dir_all
\* fails, the symlink cannot be made, or all is well.
NewOutcomes ==
    {"ok", "no_cache_dir", "mkdir_failed"}
        \cup (IF linkExists THEN {} ELSE {"symlink_failed"})

\* What the caller does when DbCache::new returned None.
OnCacheNewNone ==
    /\ newFailed' = TRUE
    /\ result' = UpgradeStatsDefault
    /\ pc' = "done"

\* let cache = match DbCache::new() { ... }
CacheNew ==
    /\ pc = "new"
    /\ \E o \in NewOutcomes :
        /\ dirExists' = (dirExists \/ o \in {"ok", "symlink_failed"})
        /\ linkExists' = (linkExists \/ o = "ok")
        /\ IF o = "ok"
             THEN /\ pc' = "check"
                  /\ UNCHANGED <<newFailed, result>>
             ELSE OnCacheNewNone
    /\ UNCHANGED <<now, ticks, ttl, sysdb, cache>>
    /\ UNCHANGED <<childAlive, hpty, childOut, childWrote, sline_buffer, fed,
                   sync_success, lastRead, endReason>>
    /\ UNCHANGED <<freshAtStart, cacheAtStart, copied, spawned, touched,
                   calcPath, syncedAt>>
    /\ UNCHANGED <<freshVars, ptyVars, ptyHist>>
    /\ UNCHANGED laterVars

\* AfterFreshCheck without the early return.
AfterFreshCheckNoReturn(fresh) == "copy"

\* if cache.is_fresh(ttl_minutes) { ... return stats } else go on to the copy
AfterFreshCheck(fresh) == IF fresh THEN "calc_cached" ELSE "copy"

CheckFresh ==
    /\ pc = "check"
    /\ freshAtStart' = IsFresh(cache, ttl, now)
    /\ cacheAtStart' = cache
    /\ pc' = AfterFreshCheck(IsFresh(cache, ttl, now))
    /\ UNCHANGED <<childAlive, hpty, childOut, childWrote, sline_buffer, fed,
                   sync_success, lastRead, endReason, result>>
    /\ UNCHANGED <<newFailed, copied, spawned, touched, calcPath, syncedAt>>
    /\ UNCHANGED <<cacheVars, freshVars, ptyVars, ptyHist>>
    /\ UNCHANGED laterVars

\* calculate_upgrade_stats(cache.dbpath(), debug), on either path
CalcStats ==
    /\ pc \in {"calc_cached", "calc_synced"}
    /\ \E s \in CalcOutcomes : result' = s
    /\ calcPath' = CachePath
    /\ pc' = "done"
    /\ UNCHANGED <<childAlive, hpty, childOut, childWrote, sline_buffer, fed,
                   sync_success, lastRead, endReason>>
    /\ UNCHANGED <<newFailed, freshAtStart, cacheAtStart, copied, spawned,
                   touched, syncedAt>>
    /\ UNCHANGED <<cacheVars, freshVars, ptyVars, ptyHist>>
    /\ UNCHANGED laterVars

\* cache.copy_system_dbs()
CopyDbs ==
    /\ pc = "copy"
    /\ cache' = CopySystemDbs(sysdb, cache)
    /\ copied' = TRUE
    /\ pc' = "spawn"
    /\ UNCHANGED <<now, ticks, ttl, sysdb, dirExists, linkExists>>
    /\ UNCHANGED <<childAlive, hpty, childOut, childWrote, sline_buffer, fed,
                   sync_success, lastRead, endReason, result>>
    /\ UNCHANGED <<newFailed, freshAtStart, cacheAtStart, spawned, touched,
                   calcPath, syncedAt>>
    /\ UNCHANGED <<freshVars, ptyVars, ptyHist>>
    /\ UNCHANGED laterVars

\* expectrl::spawn(&cmd): the child runs, or the function returns fail
Spawn ==
    /\ pc = "spawn"
    /\ spawned' = TRUE
    /\ \E ok \in BOOLEAN :
        IF ok
          THEN /\ childAlive' = TRUE
               /\ pc' = "alive"
               /\ UNCHANGED <<endReason, result>>
          ELSE /\ endReason' = "spawn_failure"
               /\ result' = UpgradeStatsDefault
               /\ pc' = "done"
               /\ UNCHANGED childAlive
    /\ UNCHANGED <<hpty, childOut, childWrote, sline_buffer, fed, sync_success,
                   lastRead>>
    /\ UNCHANGED <<newFailed, freshAtStart, cacheAtStart, copied, touched,
                   calcPath, syncedAt>>
    /\ UNCHANGED <<cacheVars, freshVars, ptyVars, ptyHist>>
    /\ UNCHANGED laterVars

\* ---------------------------------------------- the headless sync child

\* What the sync child writes to its terminal in one write.
SyncWrites == {"a", "a\n", "\r", "b\r"}

\* The modification times pacman leaves on a database it downloaded: the
\* server's (here: long ago) or the time of the download.
ChildMtimes == {0, now}

SyncChildEmit ==
    /\ pc \in {"alive", "read"}
    /\ childAlive
    /\ childOut < MaxChildOut
    /\ \E w \in SyncWrites : hpty' = hpty \o w
    /\ childOut' = childOut + 1
    /\ UNCHANGED <<pc, childAlive, childWrote, sline_buffer, fed, sync_success,
                   lastRead, endReason, result>>
    /\ UNCHANGED <<cacheVars, histVars, freshVars, ptyVars, ptyHist>>
    /\ UNCHANGED laterVars

\* pacman -Sy --dbpath <cache> replaces the databases it downloaded, each
\* repository of pacman.conf that answered; the others stay as they were.
SyncChildWriteDbs ==
    /\ pc \in {"alive", "read"}
    /\ childAlive
    /\ ~childWrote
    /\ childWrote' = TRUE
    /\ \E w \in [DbFiles -> {Absent} \cup ChildMtimes] :
         cache' = [f \in DbFiles |-> IF w[f] = Absent THEN cache[f] ELSE w[f]]
    /\ UNCHANGED <<now, ticks, ttl, sysdb, dirExists, linkExists>>
    /\ UNCHANGED <<pc, childAlive, hpty, childOut, sline_buffer, fed,
                   sync_success, lastRead, endReason, result>>
    /\ UNCHANGED <<histVars, freshVars, ptyVars, ptyHist>>
    /\ UNCHANGED laterVars

SyncChildExit ==
    /\ pc \in {"alive", "read"}
    /\ childAlive
    /\ childAlive' = FALSE
    /\ UNCHANGED <<pc, hpty, childOut, childWrote, sline_buffer, fed, sync_success,
                   lastRead, endReason, result>>
    /\ UNCHANGED <<cacheVars, histVars, freshVars, ptyVars, ptyHist>>
    /\ UNCHANGED laterVars

\* ------------------------------------------------------ the headless loop

\* SyncFeed that ends a line at a line feed only and drops a carriage return.
RECURSIVE SyncFeedLfOnly(_, _)
SyncFeedLfOnly(st, bytes) ==
    IF bytes = "" THEN st
    ELSE LET ch == Head(bytes) IN
         IF ch = "\n"
           THEN SyncFeedLfOnly([buf |-> "",
                                fed |-> IF st.buf # ""
                                          THEN Append(st.fed, st.buf)
                                          ELSE st.fed],
                               Tail(bytes))
           ELSE IF ch = "\r" THEN SyncFeedLfOnly(st, Tail(bytes))
           ELSE SyncFeedLfOnly([buf |-> st.buf \o ch, fed |-> st.fed],
                               Tail(bytes))

\* The body of `for ch in chunk.chars()`: st is [buf, fed].
RECURSIVE SyncFeed(_, _)
SyncFeed(st, bytes) ==
    IF bytes = "" THEN st
    ELSE LET ch == Head(bytes) IN
         IF ch = "\n" \/ ch = "\r"
           THEN SyncFeed([buf |-> "",
                          fed |-> IF st.buf # ""
                                    THEN Append(st.fed, st.buf) ELSE st.fed],
                         Tail(bytes))
           ELSE SyncFeed([buf |-> st.buf \o ch, fed |-> st.fed],
                         Tail(bytes))

\* match session.is_alive()
IsAlive ==
    /\ pc = "alive"
    /\ lastRead' = "none"
    /\ \E r \in {"true", "false", "err"} :
        /\ r = "true" => childAlive
        /\ r = "false" => ~childAlive
        /\ CASE r = "true" ->
                  /\ pc' = "read"
                  /\ UNCHANGED <<fed, sync_success, endReason>>
             [] r = "false" ->
                  /\ fed' = IF sline_buffer # ""
                              THEN Append(fed, sline_buffer) ELSE fed
                  /\ sync_success' = TRUE
                  /\ endReason' = "child_exit"
                  /\ pc' = "after"
             [] r = "err" ->
                  /\ endReason' = "alive_error"
                  /\ pc' = "after"
                  /\ UNCHANGED <<fed, sync_success>>
    /\ UNCHANGED <<childAlive, hpty, childOut, childWrote, sline_buffer, result>>
    /\ UNCHANGED <<cacheVars, histVars, freshVars, ptyVars, ptyHist>>
    /\ UNCHANGED laterVars

\* What session.try_read can answer.
ReadResults(unread, alive) ==
    {"Interrupted", "Other"}
        \cup (IF unread # "" THEN {"data"} ELSE {"WouldBlock"})
        \cup (IF unread = "" /\ ~alive THEN {"zero"} ELSE {})

\* OnSyncReadError with Interrupted taken for a failure.
OnSyncReadErrorNoEintr(kind) ==
    IF kind = "WouldBlock" THEN "alive" ELSE "after"

\* Where the loop goes after a read error of the given kind.
OnSyncReadError(kind) ==
    IF kind \in {"WouldBlock", "Interrupted"} THEN "alive" ELSE "after"

\* match session.try_read(&mut buf)
TryRead ==
    /\ pc = "read"
    /\ \E r \in ReadResults(hpty, childAlive) :
        /\ lastRead' = r
        /\ CASE r = "zero" ->
                  /\ pc' = "alive"
                  /\ UNCHANGED <<hpty, sline_buffer, fed, endReason>>
             [] r = "data" ->
                  LET n == Min(Len(hpty), BufSize)
                      st == SyncFeed([buf |-> sline_buffer, fed |-> fed],
                                     SubSeq(hpty, 1, n))
                  IN /\ hpty' = SubSeq(hpty, n + 1, Len(hpty))
                     /\ sline_buffer' = st.buf
                     /\ fed' = st.fed
                     /\ pc' = "alive"
                     /\ UNCHANGED endReason
             [] OTHER ->
                  /\ pc' = OnSyncReadError(r)
                  /\ endReason' = IF OnSyncReadError(r) = "after"
                                    THEN "read_error" ELSE endReason
                  /\ UNCHANGED <<hpty, sline_buffer, fed>>
    /\ UNCHANGED <<childAlive, childOut, childWrote, sync_success, result>>
    /\ UNCHANGED <<cacheVars, histVars, freshVars, ptyVars, ptyHist>>
    /\ UNCHANGED laterVars

\* SyncFailed with the check left out.
SyncFailedNever == FALSE

\* if !sync_success { return fail }
SyncFailed == ~sync_success

\* After the loop: return fail, or touch and go on to the stats.
AfterLoop ==
    /\ pc = "after"
    /\ IF SyncFailed
         THEN /\ result' = UpgradeStatsDefault
              /\ pc' = "done"
              /\ UNCHANGED <<cache, touched, syncedAt>>
         ELSE /\ cache' = Touch(cache, now)
              /\ touched' = TRUE
              /\ syncedAt' = now
              /\ pc' = "calc_synced"
              /\ UNCHANGED result
    /\ UNCHANGED <<now, ticks, ttl, sysdb, dirExists, linkExists>>
    /\ UNCHANGED <<childAlive, hpty, childOut, childWrote, sline_buffer, fed,
                   sync_success, lastRead, endReason>>
    /\ UNCHANGED <<newFailed, freshAtStart, cacheAtStart, copied, spawned,
                   calcPath>>
    /\ UNCHANGED <<freshVars, ptyVars, ptyHist>>
    /\ UNCHANGED laterVars

\* The function returns its result; the session and the child are dropped,
\* the cache directory stays for the next invocation of the program.
Return ==
    /\ pc = "done"
    /\ pc' = "returned"
    /\ childAlive' = FALSE
    /\ UNCHANGED <<hpty, childOut, childWrote, sline_buffer, fed, sync_success,
                   lastRead, endReason, result>>
    /\ UNCHANGED <<cacheVars, histVars, freshVars, ptyVars, ptyHist>>
    /\ UNCHANGED laterVars

\* ------------------------------------------------------------------- Spec

\* The clock starts late enough for a time of 0 to be older than any TTL.
StartTime == (MaxTtl + 1) * SecsPerMin * TicksPerSec

\* The system's databases: none yet, the three of them (old, or synced just
\* now), or core and extra alone (multilib is not enabled in pacman.conf).
SysStates ==
    {[f \in DbFiles |-> Absent],
     [f \in DbFiles |-> 0],
     [f \in DbFiles |-> StartTime],
     [f \in DbFiles |-> IF f = "multilib.db" THEN Absent ELSE 0]}

\* The cache directory as earlier invocations of the program left it: not
\* there, there without the link, empty, or holding databases that are old,
\* or a tick old, or one old among two that are a tick old, or core and
\* extra alone.
CacheStates ==
    {[f \in DbFiles |-> Absent],
     [f \in DbFiles |-> 0],
     [f \in DbFiles |-> StartTime - 1],
     [f \in DbFiles |-> IF f = "extra.db" THEN 0 ELSE StartTime - 1],
     [f \in DbFiles |-> IF f = "multilib.db" THEN Absent ELSE StartTime - 1]}

\* No call of upgrade_system or sync_databases.
InitCmdOff ==
    /\ command = "none"
    /\ euid_root = FALSE
    /\ sync_first = FALSE
    /\ debug = FALSE
    /\ cpc = "off"
    /\ cresult = "none"
    /\ spawnCount = 0
    /\ statsGathered = FALSE
    /\ displayed = "none"

\* No tracker.
InitTrackerOff ==
    /\ progress = SyncProgressNew
    /\ prev_progress = SyncProgressNew
    /\ tlines = <<>>

\* No call of strip_ansi.
InitStripOff ==
    /\ sa_in = ""
    /\ sa_out = ""
    /\ sa_pc = "off"

NoResponse == [status |-> 0, text_ok |-> FALSE, body |-> ""]

\* No call of check_mirror_sync.
InitMirrorOff ==
    /\ mpc = "off"
    /\ mnow = 0
    /\ attempt = 0
    /\ sends = <<>>
    /\ response = NoResponse
    /\ mresult = "none"

\* No transaction: never initialised, never released.
NoTrans == [held |-> FALSE, inits |-> 0, releases |-> 0, stray |-> 0]

\* The four counters of calculate_upgrade_stats at zero.
ZeroSums == [package_count |-> 0, download |-> 0, installed |-> 0, net |-> 0]

\* No call of calculate_upgrade_stats.
InitTransOff ==
    /\ tpc = "off"
    /\ dbpath = "none"
    /\ trans = NoTrans
    /\ to_add = <<>>
    /\ to_remove = <<>>
    /\ sums = ZeroSums
    /\ tresult = "none"

\* Option::None
None == [some |-> FALSE]

\* Option::Some
Some(v) == [some |-> TRUE, v |-> v]

\* PacmanStats::default(), of the fields format_value reads
PacmanStatsDefault ==
    [total_installed |-> 0,
     total_upgradable |-> 0,
     days_since_last_update |-> None,
     download_size_mb |-> None,
     total_installed_size_mb |-> None,
     net_upgrade_size_mb |-> None,
     orphaned_packages |-> None,
     orphaned_size_mb |-> None,
     cache_size_mb |-> None,
     mirror_url |-> None,
     mirror_sync_age_hours |-> None,
     disk_used_bytes |-> None,
     disk_total_bytes |-> None]

\* serde_json::Map::new()
EmptyMap == [k \in {} |-> ""]

\* No call of stats_to_json_string.
InitJsonOff ==
    /\ jstats = PacmanStatsDefault
    /\ json = EmptyMap
    /\ jpc = "off"

\* No call of DbCache::new on its own.
InitNewOff ==
    /\ hasCacheDir = FALSE
    /\ dirThere = FALSE
    /\ linkThere = FALSE
    /\ targetThere = FALSE
    /\ linksMade = 0
    /\ newCalls = 0
    /\ newResults = <<>>

\* PacmanStats::default()
StatsDefault == PacmanStatsDefault @@ [pacman_version |-> None]

\* No call of get_stats.
InitGetOff ==
    /\ gpc = "off"
    /\ requested = {}
    /\ gstats = StatsDefault
    /\ probe = "none"
    /\ probeUrl = None
    /\ probeOut = None

InitRestOff ==
    /\ InitStripOff
    /\ InitMirrorOff
    /\ InitTransOff
    /\ InitJsonOff
    /\ InitNewOff
    /\ InitGetOff

InitLaterOff ==
    /\ InitCmdOff
    /\ InitTrackerOff
    /\ InitRestOff

\* No session of run_pacman_pty.
InitPtyOff ==
    /\ filter = TRUE
    /\ script = <<>>
    /\ cpos = 1
    /\ palive = FALSE
    /\ ptyq = ""
    /\ childIn = 0
    /\ ppc = "off"
    /\ process_exited = FALSE
    /\ raw_mode = FALSE
    /\ line_buffer = ""
    /\ chunk = ""
    /\ out = <<>>
    /\ ptyEnd = "none"
    /\ presult = "none"
    /\ emitted = ""
    /\ readCount = 0
    /\ lineFed = 0
    /\ answeredAt = 0
    /\ promptSteps = 0
    /\ stdinReads = 0
    /\ stdinFailed = FALSE

Init ==
    /\ now = StartTime
    /\ ticks = 0
    /\ ttl \in 0..MaxTtl
    /\ sysdb \in SysStates
    /\ cache \in CacheStates
    /\ dirExists \in BOOLEAN
    /\ linkExists \in BOOLEAN
    /\ linkExists => dirExists
    /\ (\E f \in DbFiles : cache[f] # Absent) => linkExists
    /\ syncedAt = Absent
    /\ InitRun
    /\ fpc = "off"
    /\ fresh_result = FALSE
    /\ fchange = "none"
    /\ InitPtyOff
    /\ InitLaterOff

Next ==
    \/ Tick
    \/ Invoke
    \/ CacheNew
    \/ CheckFresh
    \/ CalcStats
    \/ CopyDbs
    \/ Spawn
    \/ SyncChildEmit
    \/ SyncChildWriteDbs
    \/ SyncChildExit
    \/ IsAlive
    \/ TryRead
    \/ AfterLoop
    \/ Return

Spec == Init /\ [][Next]_vars

\* ---------------------------------------------- the child of run_pacman_pty

\* A step of the child: it writes text to its terminal, or reads a line.
Write(text) == [op |-> "write", text |-> text]

ReadLine == [op |-> "read", text |-> ""]

\* What pacman -Su may do.
Scripts ==
    {\* the upgrade is confirmed; the download bar repeats the question
     <<Write("resolving dependencies...\n\nPackages (1) a-1\n\n"),
       Write(":: Proceed with installation? [Y/n] "),
       ReadLine,
       Write("y\r\n#[2K a [Y/n] 100%\r")>>,
     \* a question whose default is no
     <<Write(":: a and b are in conflict. Remove b? [y/N] "),
       ReadLine,
       Write("ok\n")>>,
     \* two questions
     <<Write(":: Proceed with installation? [Y/n] "),
       ReadLine,
       Write(":: Import PGP key 1? [Y/n] "),
       ReadLine,
       Write("ok\n")>>,
     \* a selection
     <<Write(":: There are 2 providers available for x:\n"),
       Write("Enter a number (default=1): "),
       ReadLine,
       Write("ok\n")>>,
     \* a password
     <<Write("[sudo] password for u: "),
       ReadLine,
       Write("ok\n")>>,
     \* a key to import
     <<Write(":: Import key 1? [1]: "),
       ReadLine,
       Write("ok")>>,
     \* a question written in two pieces
     <<Write(":: Proceed? [Y/"),
       Write("n] "),
       ReadLine,
       Write("x")>>,
     \* output that goes on behind the shape of a question
     <<Write(":: Running hook [1/2]: a\nb\n")>>,
     <<Write(":: Replace a? [Y/n] :: Replace b? [Y/n] \n")>>,
     \* a question behind a banner that ends in a carriage return only
     <<Write("resolving dependencies...\r:: Replace a with b? [Y/n] "),
       ReadLine,
       Write("ok\n")>>,
     \* nothing to upgrade: banners in bold, a line of nothing but a reset
     <<Write("#[1m:: Starting full system upgrade...#[0m\r\n#[0m \r\n"),
       Write(" there is nothing to do\r\n")>>}

\* The child is blocked in a read of its input.
ChildWaiting ==
    /\ palive
    /\ cpos <= Len(script)
    /\ script[cpos].op = "read"
    /\ childIn = 0

PtyChildWrite ==
    /\ ppc \in {"loop", "read", "chars"}
    /\ palive
    /\ cpos <= Len(script)
    /\ script[cpos].op = "write"
    /\ ptyq' = ptyq \o script[cpos].text
    /\ emitted' = emitted \o script[cpos].text
    /\ cpos' = cpos + 1
    /\ UNCHANGED <<filter, script, palive, childIn, ppc, process_exited,
                   raw_mode, line_buffer, chunk, out, ptyEnd, presult>>
    /\ UNCHANGED <<readCount, lineFed, answeredAt, promptSteps, stdinReads,
                   stdinFailed>>
    /\ UNCHANGED <<cacheVars, runVars, histVars, freshVars>>
    /\ UNCHANGED laterVars

PtyChildRead ==
    /\ ppc \in {"loop", "read", "chars"}
    /\ palive
    /\ cpos <= Len(script)
    /\ script[cpos].op = "read"
    /\ childIn > 0
    /\ childIn' = childIn - 1
    /\ cpos' = cpos + 1
    /\ UNCHANGED <<filter, script, palive, ptyq, ppc, process_exited, raw_mode,
                   line_buffer, chunk, out, ptyEnd, presult>>
    /\ UNCHANGED <<cacheVars, runVars, histVars, freshVars, ptyHist>>
    /\ UNCHANGED laterVars

PtyChildExit ==
    /\ ppc \in {"loop", "read", "chars"}
    /\ palive
    /\ cpos > Len(script)
    /\ palive' = FALSE
    /\ UNCHANGED <<filter, script, cpos, ptyq, childIn, ppc, process_exited,
                   raw_mode, line_buffer, chunk, out, ptyEnd, presult>>
    /\ UNCHANGED <<cacheVars, runVars, histVars, freshVars, ptyHist>>
    /\ UNCHANGED laterVars

\* --------------------------------------------------------- run_pacman_pty

\* expectrl::spawn(&cmd).map_err(...)?
PtySpawn ==
    /\ ppc = "start"
    /\ \E ok \in BOOLEAN :
        IF ok
          THEN /\ palive' = TRUE
               /\ ppc' = "loop"
               /\ UNCHANGED presult
          ELSE /\ presult' = "Err"
               /\ ppc' = "returned"
               /\ UNCHANGED palive
    /\ UNCHANGED <<filter, script, cpos, ptyq, childIn, process_exited,
                   raw_mode, line_buffer, chunk, out, ptyEnd>>
    /\ UNCHANGED <<cacheVars, runVars, histVars, freshVars, ptyHist>>
    /\ UNCHANGED laterVars

\* if !process_exited { match session.is_alive() { ... } }
PtyIsAlive ==
    /\ ppc = "loop"
    /\ IF process_exited
         THEN UNCHANGED process_exited
         ELSE \E r \in {"true", "false", "err"} :
                /\ r = "true" => palive
                /\ r = "false" => ~palive
                /\ process_exited' = (r # "true")
    /\ ppc' = "read"
    /\ UNCHANGED <<filter, script, cpos, palive, ptyq, childIn, raw_mode,
                   line_buffer, chunk, out, ptyEnd, presult>>
    /\ UNCHANGED <<cacheVars, runVars, histVars, freshVars, ptyHist>>
    /\ UNCHANGED laterVars

\* stdout.write_all(&buf[..n]) and flush
RawWrite(bytes) == [k |-> "raw", s |-> bytes]

\* println!("{}", line_buffer)
PrintLine(line) == [k |-> "line", s |-> line \o "\n"]

\* match session.try_read(&mut buf), but for the walk of a chunk in
\* LineFiltered mode, which PtyChar takes character by character
PtyTryRead ==
    /\ ppc = "read"
    /\ \E r \in ReadResults(ptyq, palive) :
        CASE r = "data" ->
               LET n == Min(Len(ptyq), BufSize)
                   bytes == SubSeq(ptyq, 1, n)
               IN /\ ptyq' = SubSeq(ptyq, n + 1, Len(ptyq))
                  /\ readCount' = readCount + n
                  /\ IF raw_mode
                       THEN /\ out' = Append(out, RawWrite(bytes))
                            /\ ppc' = "loop"
                            /\ UNCHANGED chunk
                       ELSE /\ chunk' = bytes
                            /\ ppc' = "chars"
                            /\ UNCHANGED out
                  /\ UNCHANGED ptyEnd
          [] r = "Other" ->
               /\ ppc' = "ended"
               /\ ptyEnd' = "read_error"
               /\ UNCHANGED <<ptyq, readCount, out, chunk>>
          [] OTHER ->
               /\ IF process_exited
                    THEN ppc' = "ended" /\ ptyEnd' = "exit"
                    ELSE ppc' = "loop" /\ UNCHANGED ptyEnd
               /\ UNCHANGED <<ptyq, readCount, out, chunk>>
    /\ UNCHANGED <<filter, script, cpos, palive, childIn, process_exited,
                   raw_mode, line_buffer, presult>>
    /\ UNCHANGED <<emitted, lineFed, answeredAt, promptSteps, stdinReads,
                   stdinFailed>>
    /\ UNCHANGED <<cacheVars, runVars, histVars, freshVars>>
    /\ UNCHANGED laterVars

\* What the prompt step writes: a blank line before the confirmation of the
\* installation, then the prompt, if the filter lets the buffer through.
PromptOutput(buf, flt) ==
    IF should_print(buf, flt)
      THEN (IF Contains(buf, "Proceed with installation")
              THEN <<[k |-> "line", s |-> "\n\n"]>> ELSE <<>>)
           \o <<[k |-> "prompt", s |-> buf]>>
      ELSE <<>>

\* ModeAfterPrompt with the mode set back when the read of the input fails.
ModeAfterPromptUnset(read_ok, mode) == read_ok

\* `if std::io::stdin().read_line(&mut input).is_ok() { ...; raw_mode = true; }`
ModeAfterPrompt(read_ok, mode) == IF read_ok THEN TRUE ELSE mode

\* The prompt step, on the buffer that has come to have the shape of a
\* prompt with the character at position idx of the child's output.
PromptStep(buf, idx) ==
    /\ out' = out \o PromptOutput(buf, filter)
    /\ line_buffer' = ""
    /\ promptSteps' = promptSteps + 1
    /\ stdinReads' = stdinReads + 1
    /\ \E read_ok \in BOOLEAN :
        /\ raw_mode' = ModeAfterPrompt(read_ok, raw_mode)
        /\ childIn' = IF read_ok THEN childIn + 1 ELSE childIn
        /\ answeredAt' = IF read_ok /\ answeredAt = 0 THEN idx ELSE answeredAt
        /\ stdinFailed' = (stdinFailed \/ ~read_ok)

\* One turn of `for ch in chunk.chars()`
PtyChar ==
    /\ ppc = "chars"
    /\ LET ch == Head(chunk)
           idx == readCount - Len(chunk) + 1
           buf == line_buffer \o ch
       IN /\ lineFed' = idx
          /\ CASE ch = "\n" ->
                    /\ out' = IF should_print(line_buffer, filter)
                                THEN Append(out, PrintLine(line_buffer))
                                ELSE out
                    /\ line_buffer' = ""
                    /\ UNCHANGED <<raw_mode, childIn, answeredAt, promptSteps,
                                   stdinReads, stdinFailed>>
               [] ch = "\r" ->
                    UNCHANGED <<out, line_buffer, raw_mode, childIn,
                                answeredAt, promptSteps, stdinReads,
                                stdinFailed>>
               [] OTHER ->
                    IF IsPrompt(buf)
                      THEN PromptStep(buf, idx)
                      ELSE /\ line_buffer' = buf
                           /\ UNCHANGED <<out, raw_mode, childIn, answeredAt,
                                          promptSteps, stdinReads,
                                          stdinFailed>>
    /\ chunk' = Tail(chunk)
    /\ ppc' = IF Tail(chunk) = "" THEN "loop" ELSE "chars"
    /\ UNCHANGED <<filter, script, cpos, palive, ptyq, process_exited, ptyEnd,
                   presult>>
    /\ UNCHANGED <<emitted, readCount>>
    /\ UNCHANGED <<cacheVars, runVars, histVars, freshVars>>
    /\ UNCHANGED laterVars

\* After the loop: the trailing line, the style reset, Ok(())
PtyFinish ==
    /\ ppc = "ended"
    /\ out' = out
               \o (IF line_buffer # "" /\ should_print(line_buffer, filter)
                     THEN <<PrintLine(line_buffer)>> ELSE <<>>)
               \o <<[k |-> "reset", s |-> ESC \o "[0m"]>>
    /\ presult' = "Ok"
    /\ ppc' = "returned"
    /\ UNCHANGED <<filter, script, cpos, palive, ptyq, childIn, process_exited,
                   raw_mode, line_buffer, chunk, ptyEnd>>
    /\ UNCHANGED <<cacheVars, runVars, histVars, freshVars, ptyHist>>
    /\ UNCHANGED laterVars

InitPty ==
    /\ now = StartTime
    /\ ticks = 0
    /\ ttl = 0
    /\ sysdb = [f \in DbFiles |-> Absent]
    /\ cache = [f \in DbFiles |-> Absent]
    /\ dirExists = FALSE
    /\ linkExists = FALSE
    /\ syncedAt = Absent
    /\ InitRun
    /\ fpc = "off"
    /\ fresh_result = FALSE
    /\ fchange = "none"
    /\ filter \in BOOLEAN
    /\ script \in Scripts
    /\ cpos = 1
    /\ palive = FALSE
    /\ ptyq = ""
    /\ childIn = 0
    /\ ppc = "start"
    /\ process_exited = FALSE
    /\ raw_mode = FALSE
    /\ line_buffer = ""
    /\ chunk = ""
    /\ out = <<>>
    /\ ptyEnd = "none"
    /\ presult = "none"
    /\ emitted = ""
    /\ readCount = 0
    /\ lineFed = 0
    /\ answeredAt = 0
    /\ promptSteps = 0
    /\ stdinReads = 0
    /\ stdinFailed = FALSE
    /\ InitLaterOff

NextPty ==
    \/ PtyChildWrite
    \/ PtyChildRead
    \/ PtyChildExit
    \/ PtySpawn
    \/ PtyIsAlive
    \/ PtyTryRead
    \/ PtyChar
    \/ PtyFinish

SpecPty == InitPty /\ [][NextPty]_vars

\* ------------------------------------------------------- both read loops
\* A run of the program is an invocation of the headless sync or a session
\* of run_pacman_pty.
InitLoops ==
    \/ Init
    \/ InitPty

NextLoops ==
    \/ ppc = "off" /\ Next
    \/ ppc # "off" /\ NextPty

SpecLoops == InitLoops /\ [][NextLoops]_vars

\* ------------------------------------- upgrade_system and sync_databases

\* No invocation of calculate_upgrade_stats_with_sync and no cache.
InitSyncOff ==
    /\ now = StartTime
    /\ ticks = 0
    /\ ttl = 0
    /\ sysdb = [f \in DbFiles |-> Absent]
    /\ cache = [f \in DbFiles |-> Absent]
    /\ dirExists = FALSE
    /\ linkExists = FALSE
    /\ syncedAt = Absent
    /\ InitRun
    /\ fpc = "off"
    /\ fresh_result = FALSE
    /\ fchange = "none"

ErrNotRoot == "you cannot perform this operation unless you are root."

ErrSpawn == "Failed to spawn pacman"

\* AfterRootCheck with the check left out.
AfterRootCheckAlways(root, next) == next

\* `if !util::is_root() { return Err(...) }`: where the operation goes.
AfterRootCheck(root, next) == IF root THEN next ELSE "returned"

\* upgrade_system: the check of the effective user, then `if sync_first`
UpgradeSystemEntry ==
    /\ command = "upgrade_system"
    /\ cpc = "entry"
    /\ cpc' = AfterRootCheck(euid_root,
                             IF sync_first THEN "sync_entry" ELSE "stats")
    /\ cresult' = IF cpc' = "returned" THEN ErrNotRoot ELSE cresult
    /\ UNCHANGED <<command, euid_root, sync_first, debug, spawnCount,
                   statsGathered, displayed>>
    /\ UNCHANGED <<cacheVars, runVars, histVars, freshVars, ptyVars, ptyHist>>
    /\ UNCHANGED <<trackerVars, restVars>>

\* sync_databases: run_pacman_sync()
SyncDatabasesEntry ==
    /\ command = "sync_databases"
    /\ cpc = "entry"
    /\ cpc' = "sync_entry"
    /\ UNCHANGED <<command, euid_root, sync_first, debug, cresult, spawnCount,
                   statsGathered, displayed>>
    /\ UNCHANGED <<cacheVars, runVars, histVars, freshVars, ptyVars, ptyHist>>
    /\ UNCHANGED <<trackerVars, restVars>>

\* run_pacman_sync: the check of the effective user
RunPacmanSyncEntry ==
    /\ cpc = "sync_entry"
    /\ cpc' = AfterRootCheck(euid_root, "sync_spawn")
    /\ cresult' = IF cpc' = "returned" THEN ErrNotRoot ELSE cresult
    /\ UNCHANGED <<command, euid_root, sync_first, debug, spawnCount,
                   statsGathered, displayed>>
    /\ UNCHANGED <<cacheVars, runVars, histVars, freshVars, ptyVars, ptyHist>>
    /\ UNCHANGED <<trackerVars, restVars>>

\* run_pacman_sync: expectrl::spawn("pacman -Sy").map_err(...)?
RunPacmanSyncSpawn ==
    /\ cpc = "sync_spawn"
    /\ spawnCount' = spawnCount + 1
    /\ \E ok \in BOOLEAN :
        IF ok
          THEN cpc' = "sync_loop" /\ UNCHANGED cresult
          ELSE cpc' = "returned" /\ cresult' = ErrSpawn
    /\ UNCHANGED <<command, euid_root, sync_first, debug, statsGathered,
                   displayed>>
    /\ UNCHANGED <<cacheVars, runVars, histVars, freshVars, ptyVars, ptyHist>>
    /\ UNCHANGED <<trackerVars, restVars>>

\* run_pacman_sync: the loop, however it ends (the child's exit, an error of
\* the liveness check, a read error), then Ok(()); upgrade_system goes on,
\* sync_databases returns it.
RunPacmanSyncLoop ==
    /\ cpc = "sync_loop"
    /\ IF command = "sync_databases"
         THEN cpc' = "returned" /\ cresult' = "Ok"
         ELSE cpc' = "stats" /\ UNCHANGED cresult
    /\ UNCHANGED <<command, euid_root, sync_first, debug, spawnCount,
                   statsGathered, displayed>>
    /\ UNCHANGED <<cacheVars, runVars, histVars, freshVars, ptyVars, ptyHist>>
    /\ UNCHANGED <<trackerVars, restVars>>

\* upgrade_system: get_stats(.., fresh_sync = false, ..), which computes the
\* upgrade stats against the system's databases
UpgradeGetStats ==
    /\ cpc = "stats"
    /\ statsGathered' = TRUE
    /\ calcPath' = SystemPath
    /\ cpc' = "display"
    /\ UNCHANGED <<command, euid_root, sync_first, debug, cresult, spawnCount,
                   displayed>>
    /\ UNCHANGED <<newFailed, freshAtStart, cacheAtStart, copied, spawned,
                   touched, syncedAt>>
    /\ UNCHANGED <<cacheVars, runVars, freshVars, ptyVars, ptyHist>>
    /\ UNCHANGED <<trackerVars, restVars>>

\* upgrade_system: the display of the stats, as text when debug is set or
\* when the graphics fail, then run_pacman_pty(&["-Su"], true) is entered
UpgradeDisplay ==
    /\ cpc = "display"
    /\ \E gfx_ok \in BOOLEAN :
        displayed' = IF debug THEN "text"
                     ELSE IF gfx_ok THEN "graphics" ELSE "error_then_text"
    /\ cpc' = "pty"
    /\ ppc' = "start"
    /\ UNCHANGED <<command, euid_root, sync_first, debug, cresult, spawnCount,
                   statsGathered>>
    /\ UNCHANGED <<filter, script, cpos, palive, ptyq, childIn, process_exited,
                   raw_mode, line_buffer, chunk, out, ptyEnd, presult>>
    /\ UNCHANGED <<cacheVars, runVars, histVars, freshVars, ptyHist>>
    /\ UNCHANGED <<trackerVars, restVars>>

\* upgrade_system returns what run_pacman_pty returned
UpgradeReturn ==
    /\ cpc = "pty"
    /\ ppc = "returned"
    /\ cresult' = presult
    /\ cpc' = "returned"
    /\ UNCHANGED <<command, euid_root, sync_first, debug, spawnCount,
                   statsGathered, displayed>>
    /\ UNCHANGED <<cacheVars, runVars, histVars, freshVars, ptyVars, ptyHist>>
    /\ UNCHANGED <<trackerVars, restVars>>

InitCmd ==
    /\ InitSyncOff
    /\ command \in {"upgrade_system", "sync_databases"}
    /\ euid_root \in BOOLEAN
    /\ sync_first \in BOOLEAN
    /\ debug \in BOOLEAN
    /\ cpc = "entry"
    /\ cresult = "none"
    /\ spawnCount = 0
    /\ statsGathered = FALSE
    /\ displayed = "none"
    /\ filter = TRUE
    /\ script \in Scripts
    /\ cpos = 1
    /\ palive = FALSE
    /\ ptyq = ""
    /\ childIn = 0
    /\ ppc = "off"
    /\ process_exited = FALSE
    /\ raw_mode = FALSE
    /\ line_buffer = ""
    /\ chunk = ""
    /\ out = <<>>
    /\ ptyEnd = "none"
    /\ presult = "none"
    /\ emitted = ""
    /\ readCount = 0
    /\ lineFed = 0
    /\ answeredAt = 0
    /\ promptSteps = 0
    /\ stdinReads = 0
    /\ stdinFailed = FALSE
    /\ InitTrackerOff
    /\ InitRestOff

NextCmd ==
    \/ UpgradeSystemEntry
    \/ SyncDatabasesEntry
    \/ RunPacmanSyncEntry
    \/ RunPacmanSyncSpawn
    \/ RunPacmanSyncLoop
    \/ UpgradeGetStats
    \/ UpgradeDisplay
    \/ UpgradeReturn
    \/ NextPty

SpecCmd == InitCmd /\ [][NextCmd]_vars

\* ----------------------------------------------------------- SpecTracker

\* Lines of pacman -Sy, and lines it does not write: progress of the three
\* databases, of a database the tracker does not know, a percentage past
\* u8::MAX, a malformed percentage, a progress bar with its escapes.
TrackerLines ==
    {"core 10%",
     "core 55%",
     "core is up to date",
     "extra 30%",
     "multilib 99%",
     "extra 100%",
     "core 256%",
     " multilib is up to date",
     " core-testing is up to date",
     "community 50%",
     "extra 4x%",
     "#[1m core  130.1 KiB  1301 KiB/s 00:00 [####] 100%#[0m"}

InitTracker ==
    /\ InitSyncOff
    /\ InitPtyOff
    /\ InitCmdOff
    /\ progress = SyncProgressNew
    /\ prev_progress = SyncProgressNew
    /\ tlines = <<>>
    /\ InitRestOff

\* progress.update_from_line(&line)
UpdateFromLine ==
    /\ Len(tlines) < MaxLines
    /\ \E line \in TrackerLines :
        /\ progress' = update_from_line(progress, line)
        /\ tlines' = Append(tlines, line)
    /\ prev_progress' = progress
    /\ UNCHANGED <<cacheVars, runVars, histVars, freshVars, ptyVars, ptyHist,
                   cmdVars, restVars>>

NextTracker ==
    \/ UpdateFromLine

SpecTracker == InitTracker /\ [][NextTracker]_vars

\* ------------------------------------------------------------- SpecStrip

\* The characters the inputs are made of: the two escapes, the brackets, the
\* backslash, a final character of CSI, a parameter.
StripAlphabet == {ESC, BEL, "[", "]", "\\", "m", "1"}

\* The strings of exactly n characters of the alphabet.
RECURSIVE StringsOfLen(_)
StringsOfLen(n) ==
    IF n = 0 THEN {""}
    ELSE {s \o c : s \in StringsOfLen(n - 1), c \in StripAlphabet}

\* Every string of the alphabet up to MaxStripLen characters, and text with
\* sequences as a terminal gets them.
StripInputs ==
    UNION {StringsOfLen(n) : n \in 0..MaxStripLen}
        \cup {"#[1;33mhello#[0m",
              "#[31",
              "#]0;title!text",
              "#]0;title#\\text",
              "#]0;title#[0mtext",
              "a#7b#[2Kc"}

\* Everything but the variables of strip_ansi.
othersThanStrip ==
    <<cacheVars, runVars, histVars, freshVars, ptyVars, ptyHist, cmdVars,
      trackerVars, mirrorVars, transVars,
      jsonVars, newVars,
      getVars>>

InitStrip ==
    /\ InitSyncOff
    /\ InitPtyOff
    /\ InitCmdOff
    /\ InitTrackerOff
    /\ sa_in \in StripInputs
    /\ sa_out = ""
    /\ sa_pc = "ready"
    /\ InitMirrorOff
    /\ InitTransOff
    /\ InitJsonOff
    /\ InitNewOff
    /\ InitGetOff

\* let clean = util::strip_ansi(line)
StripAnsi ==
    /\ sa_pc = "ready"
    /\ sa_out' = strip_ansi(sa_in)
    /\ sa_pc' = "done"
    /\ UNCHANGED sa_in
    /\ UNCHANGED othersThanStrip

NextStrip ==
    \/ StripAnsi

SpecStrip == InitStrip /\ [][NextStrip]_vars

\* ------------------------------------------------------ check_mirror_sync

\* `(0..2)`: the attempts of the find_map
MirrorAttempts == 2

\* `age_seconds as f64 / 3600.0`
SecsPerHour == 3600

\* The None check_mirror_sync returns.
MirrorNone == [some |-> FALSE, age_seconds |-> 0]

\* Some(age_hours.max(0.0)), the age kept in seconds: the hours are
\* age_seconds / SecsPerHour
MirrorSome(age_seconds) ==
    [some |-> TRUE, age_seconds |-> IF age_seconds < 0 THEN 0 ELSE age_seconds]

NoTimestamp == [ok |-> FALSE, value |-> 0]

\* The value of a non-empty string of digits read after the value acc, or
\* NoTimestamp when a character is no digit
RECURSIVE ParseI64Digits(_, _)
ParseI64Digits(s, acc) ==
    IF s = "" THEN [ok |-> TRUE, value |-> acc]
    ELSE IF ~IsDigit(Head(s)) THEN NoTimestamp
    ELSE ParseI64Digits(Tail(s), acc * 10 + DigitValue(Head(s)))

\* str::parse::<i64>, of the strings the model holds (none is near the ends
\* of i64): digits behind an optional sign, at least one
parse_i64(s) ==
    LET signed == s # "" /\ Head(s) \in {"+", "-"}
        digits == IF signed THEN Tail(s) ELSE s
        parsed == IF digits = "" THEN NoTimestamp ELSE ParseI64Digits(digits, 0)
    IN IF parsed.ok /\ signed /\ Head(s) = "-"
         THEN [ok |-> TRUE, value |-> 0 - parsed.value]
         ELSE parsed

\* The statuses a mirror answers with.
Statuses == {200, 404}

\* StatusIsSuccess: 200..=299
StatusIsSuccess(status) == status >= 200 /\ status <= 299

\* The bodies a mirror answers with.
Bodies == {"3600\n", "0", "10800", "-5", "", "n/a", "<html>"}

Responses ==
    [status : Statuses, text_ok : BOOLEAN, body : Bodies]

\* Everything but the variables of check_mirror_sync.
othersThanMirror ==
    <<cacheVars, runVars, histVars, freshVars, ptyVars, ptyHist, cmdVars,
      trackerVars, stripVars, transVars,
      jsonVars, newVars,
      getVars>>

\* reqwest::blocking::Client::builder().timeout(..).build()
MirrorBuildClient ==
    /\ mpc = "build"
    /\ \E ok \in BOOLEAN :
        IF ok
          THEN mpc' = "send" /\ UNCHANGED mresult
          ELSE mpc' = "returned" /\ mresult' = MirrorNone
    /\ UNCHANGED <<mnow, attempt, sends, response>>
    /\ UNCHANGED othersThanMirror

\* AfterSend that goes on to the next attempt after a response too.
AfterSendAlwaysNext(ok, n) ==
    IF n + 1 < MirrorAttempts THEN "send" ELSE IF ok THEN "status" ELSE "failed"

\* find_map: it stops at the first attempt that gave a response, goes to
\* the next attempt after an Err, and ends with None after the last
AfterSend(ok, n) ==
    IF ok THEN "status"
    ELSE IF n + 1 < MirrorAttempts THEN "send" ELSE "failed"

\* One attempt: client.get(&lastsync_url).send()
MirrorSend ==
    /\ mpc = "send"
    /\ \/ /\ sends' = Append(sends, "Err")
          /\ mpc' = AfterSend(FALSE, attempt)
          /\ UNCHANGED response
       \/ \E r \in Responses :
          /\ sends' = Append(sends, "Ok")
          /\ mpc' = AfterSend(TRUE, attempt)
          /\ response' = r
    /\ attempt' = attempt + 1
    /\ UNCHANGED <<mnow, mresult>>
    /\ UNCHANGED othersThanMirror

\* The find_map found nothing: `None => { log_error(..); return None; }`
MirrorFetchFailed ==
    /\ mpc = "failed"
    /\ mresult' = MirrorNone
    /\ mpc' = "returned"
    /\ UNCHANGED <<mnow, attempt, sends, response>>
    /\ UNCHANGED othersThanMirror

\* From the status to the result: the status, the text, the timestamp, the
\* age
MirrorResult(r, clock) ==
    IF ~StatusIsSuccess(r.status) THEN MirrorNone
    ELSE IF ~r.text_ok THEN MirrorNone
    ELSE IF ~parse_i64(Trim(r.body)).ok THEN MirrorNone
    ELSE MirrorSome(clock - parse_i64(Trim(r.body)).value)

\* The rest of check_mirror_sync, with a response
MirrorRead ==
    /\ mpc = "status"
    /\ mresult' = MirrorResult(response, mnow)
    /\ mpc' = "returned"
    /\ UNCHANGED <<mnow, attempt, sends, response>>
    /\ UNCHANGED othersThanMirror

InitMirror ==
    /\ InitSyncOff
    /\ InitPtyOff
    /\ InitCmdOff
    /\ InitTrackerOff
    /\ InitStripOff
    /\ mpc = "build"
    /\ mnow \in {0, SecsPerHour, 2 * SecsPerHour + 1}
    /\ attempt = 0
    /\ sends = <<>>
    /\ response = NoResponse
    /\ mresult = "none"
    /\ InitTransOff
    /\ InitJsonOff
    /\ InitNewOff
    /\ InitGetOff

NextMirror ==
    \/ MirrorBuildClient
    \/ MirrorSend
    \/ MirrorFetchFailed
    \/ MirrorRead

SpecMirror == InitMirror /\ [][NextMirror]_vars

\* ------------------------------------------------ calculate_upgrade_stats

\* BYTES_PER_MIB
BytesPerMib == 1048576

\* alpm.trans_init(..) that succeeded
trans_init(t) == [t EXCEPT !.held = TRUE, !.inits = t.inits + 1]

\* trans_release that does nothing.
trans_release_noop(t) == t

\* alpm.trans_release(): the transaction is let go; a release of a
\* transaction that is not held is counted as stray
trans_release(t) ==
    [t EXCEPT !.held = FALSE,
              !.releases = t.releases + 1,
              !.stray = IF t.held THEN t.stray ELSE t.stray + 1]

\* The sizes of packages, in bytes.
PkgSizes == {0, 4096, BytesPerMib}

\* A package to add: its download size, its installed size, and the
\* installed size of the local package of that name, or Absent.
PkgsToAdd ==
    [download : {0, BytesPerMib}, isize : PkgSizes,
     old : {Absent, 4096, 2 * BytesPerMib}]

\* alpm.trans_add() and alpm.trans_remove() after a prepare that succeeded.
AddLists ==
    {<<>>} \cup {<<p>> : p \in PkgsToAdd}
        \cup {<<[download |-> BytesPerMib, isize |-> BytesPerMib,
                 old |-> Absent], p>> : p \in PkgsToAdd}

RemoveLists == {<<>>, <<4096>>, <<BytesPerMib, 4096>>}

\* Everything but the variables of calculate_upgrade_stats.
othersThanTrans ==
    <<cacheVars, runVars, histVars, freshVars, ptyVars, ptyHist, cmdVars,
      trackerVars, stripVars, mirrorVars,
      jsonVars, newVars,
      getVars>>

\* Alpm::new("/", dbpath) and the three register_syncdb_mut
AlpmNew ==
    /\ tpc = "new"
    /\ \E ok \in BOOLEAN :
        IF ok
          THEN tpc' = "trans_init" /\ UNCHANGED tresult
          ELSE tpc' = "returned" /\ tresult' = UpgradeStatsDefault
    /\ UNCHANGED <<dbpath, trans, to_add, to_remove, sums>>
    /\ UNCHANGED othersThanTrans

\* alpm.trans_init(alpm::TransFlag::NO_LOCK)
TransInit ==
    /\ tpc = "trans_init"
    /\ \E ok \in BOOLEAN :
        IF ok
          THEN /\ trans' = trans_init(trans)
               /\ tpc' = "sysupgrade"
               /\ UNCHANGED tresult
          ELSE /\ tpc' = "returned"
               /\ tresult' = UpgradeStatsDefault
               /\ UNCHANGED trans
    /\ UNCHANGED <<dbpath, to_add, to_remove, sums>>
    /\ UNCHANGED othersThanTrans

\* alpm.sync_sysupgrade(false)
SyncSysupgrade ==
    /\ tpc = "sysupgrade"
    /\ \E ok \in BOOLEAN :
        IF ok
          THEN /\ tpc' = "prepare"
               /\ UNCHANGED <<trans, tresult>>
          ELSE /\ trans' = trans_release(trans)
               /\ tpc' = "returned"
               /\ tresult' = UpgradeStatsDefault
    /\ UNCHANGED <<dbpath, to_add, to_remove, sums>>
    /\ UNCHANGED othersThanTrans

\* alpm.trans_prepare()
TransPrepare ==
    /\ tpc = "prepare"
    /\ \/ /\ trans' = trans_release(trans)
          /\ tpc' = "returned"
          /\ tresult' = UpgradeStatsDefault
          /\ UNCHANGED <<to_add, to_remove>>
       \/ /\ to_add' \in AddLists
          /\ to_remove' \in RemoveLists
          /\ tpc' = "add"
          /\ UNCHANGED <<trans, tresult>>
    /\ UNCHANGED <<dbpath, sums>>
    /\ UNCHANGED othersThanTrans

\* One turn of `for pkg in alpm.trans_add().into_iter()`
AddPkg ==
    /\ tpc = "add"
    /\ to_add # <<>>
    /\ LET pkg == Head(to_add) IN
       sums' = [package_count |-> sums.package_count + 1,
                download |-> sums.download + pkg.download,
                installed |-> sums.installed + pkg.isize,
                net |-> IF pkg.old # Absent
                          THEN sums.net + (pkg.isize - pkg.old)
                          ELSE sums.net + pkg.isize]
    /\ to_add' = Tail(to_add)
    /\ UNCHANGED <<tpc, dbpath, trans, to_remove, tresult>>
    /\ UNCHANGED othersThanTrans

RECURSIVE SumOf(_)
SumOf(sizes) == IF sizes = <<>> THEN 0 ELSE Head(sizes) + SumOf(Tail(sizes))

\* `if net_mib > -0.01 && net_mib < 0.01 { net_mib = 0.0; }`, in bytes
NetOrZero(net) ==
    IF net * 100 > 0 - BytesPerMib /\ net * 100 < BytesPerMib THEN 0 ELSE net

\* The loop over trans_remove, trans_release, and the UpgradeStats with the
\* three sizes (here in bytes: the MiB are the bytes by BytesPerMib)
TransFinish ==
    /\ tpc = "add"
    /\ to_add = <<>>
    /\ LET net == sums.net - SumOf(to_remove) IN
       /\ sums' = [sums EXCEPT !.net = net]
       /\ tresult' = [sizes |-> TRUE,
                      package_count |-> sums.package_count,
                      download |-> sums.download,
                      installed |-> sums.installed,
                      net |-> NetOrZero(net)]
    /\ trans' = trans_release(trans)
    /\ tpc' = "returned"
    /\ UNCHANGED <<dbpath, to_add, to_remove>>
    /\ UNCHANGED othersThanTrans

InitTrans ==
    /\ InitSyncOff
    /\ InitPtyOff
    /\ InitCmdOff
    /\ InitTrackerOff
    /\ InitStripOff
    /\ InitMirrorOff
    /\ tpc = "new"
    /\ dbpath \in {CachePath, SystemPath}
    /\ trans = NoTrans
    /\ to_add = <<>>
    /\ to_remove = <<>>
    /\ sums = ZeroSums
    /\ tresult = "none"
    /\ InitJsonOff
    /\ InitNewOff
    /\ InitGetOff

NextTrans ==
    \/ AlpmNew
    \/ TransInit
    \/ SyncSysupgrade
    \/ TransPrepare
    \/ AddPkg
    \/ TransFinish

SpecTrans == InitTrans /\ [][NextTrans]_vars

\* ------------------------------------------------------ stats_to_json_string
\* The twelve variants of StatId.
StatIds ==
    {"Title", "Installed", "Upgradable", "LastUpdate", "DownloadSize",
     "InstalledSize", "NetUpgradeSize", "OrphanedPackages", "CacheSize",
     "MirrorUrl", "MirrorHealth", "Disk"}

\* stats::ALL_STAT_IDS, the list the loop of stats_to_json_string walks: every
\* variant of StatId, in the order of the declaration.
ALL_STAT_IDS ==
    <<"Title", "Installed", "Upgradable", "LastUpdate", "DownloadSize",
      "InstalledSize", "NetUpgradeSize", "OrphanedPackages", "CacheSize",
      "MirrorUrl", "MirrorHealth", "Disk">>

\* StatId::config_key
config_key(id) ==
    CASE id = "Title" -> "title"
      [] id = "Installed" -> "installed"
      [] id = "Upgradable" -> "upgradable"
      [] id = "LastUpdate" -> "last_update"
      [] id = "DownloadSize" -> "download_size"
      [] id = "InstalledSize" -> "installed_size"
      [] id = "NetUpgradeSize" -> "net_upgrade_size"
      [] id = "OrphanedPackages" -> "orphaned_packages"
      [] id = "CacheSize" -> "cache_size"
      [] id = "MirrorUrl" -> "mirror_url"
      [] id = "MirrorHealth" -> "mirror_health"
      [] id = "Disk" -> "disk"

\* if n != 1 { "s" } else { "" }
Plural(n) == IF n # 1 THEN "s" ELSE ""

SecsPerDay == 86400

\* util::normalize_duration
normalize_duration(seconds) ==
    IF seconds < SecsPerMin
    THEN ToString(seconds) \o " second" \o Plural(seconds)
    ELSE IF seconds < SecsPerHour
    THEN LET minutes == seconds \div SecsPerMin
         IN  ToString(minutes) \o " minute" \o Plural(minutes)
    ELSE IF seconds < SecsPerDay
    THEN LET hours == seconds \div SecsPerHour
         IN  ToString(hours) \o " hour" \o Plural(hours)
    ELSE LET days == seconds \div SecsPerDay
             hours == (seconds % SecsPerDay) \div SecsPerHour
         IN  ToString(days) \o " day" \o Plural(days) \o " "
                 \o ToString(hours) \o " hour" \o Plural(hours)

\* The absolute value.
Abs(n) == IF n < 0 THEN 0 - n ELSE n

\* {:.2} of a number of hundredths: the sign, the whole part, a point and
\* two digits.
Fixed2(h) ==
    LET frac == Abs(h) % 100
    IN  (IF h < 0 THEN "-" ELSE "") \o ToString(Abs(h) \div 100) \o "."
            \o (IF frac < 10 THEN "0" ELSE "") \o ToString(frac)

\* {:.1} of a number of tenths.
Fixed1(t) ==
    (IF t < 0 THEN "-" ELSE "") \o ToString(Abs(t) \div 10) \o "."
        \o ToString(Abs(t) % 10)

\* The non-negative quotient n / d to the nearest integer, a tie to the even
\* one, as the formatting of a float rounds.
RoundDiv(n, d) ==
    LET q == n \div d
        r == n % d
    IN  IF 2 * r > d \/ (2 * r = d /\ q % 2 = 1) THEN q + 1 ELSE q

BYTES_PER_GIB == 1073741824

MibPerGib == BYTES_PER_GIB \div BytesPerMib

\* bytes as f64 / BYTES_PER_GIB in hundredths, for a whole number of MiB
GibHundredths(bytes) == RoundDiv((bytes \div BytesPerMib) * 100, MibPerGib)

\* (used as f64 / total as f64) * 100.0 to the nearest integer, or 0 when
\* total is 0, for whole numbers of MiB
DiskPct(used, total) ==
    IF total > 0
    THEN RoundDiv((used \div BytesPerMib) * 100, total \div BytesPerMib)
    ELSE 0

\* Option::map
OptionMap(opt, F(_)) == IF opt.some THEN Some(F(opt.v)) ELSE None

\* format!("{:.2} MiB", s)
FormatMib(s) == Fixed2(s) \o " MiB"

\* StatId::format_value.  Sizes are in hundredths of a MiB and the sync age
\* in tenths of an hour.
format_value(id, stats) ==
    CASE id = "Title" -> None
      [] id = "Installed" -> Some(ToString(stats.total_installed))
      [] id = "Upgradable" -> Some(ToString(stats.total_upgradable))
      [] id = "LastUpdate" ->
            OptionMap(stats.days_since_last_update, normalize_duration)
      [] id = "DownloadSize" -> OptionMap(stats.download_size_mb, FormatMib)
      [] id = "InstalledSize" ->
            OptionMap(stats.total_installed_size_mb, FormatMib)
      [] id = "NetUpgradeSize" ->
            OptionMap(stats.net_upgrade_size_mb, FormatMib)
      [] id = "OrphanedPackages" ->
            IF stats.orphaned_packages.some
            THEN LET count == stats.orphaned_packages.v
                 IN  IF count > 0
                     THEN IF stats.orphaned_size_mb.some
                          THEN Some(ToString(count) \o " ("
                                   \o Fixed2(stats.orphaned_size_mb.v)
                                   \o " MiB)")
                          ELSE Some(ToString(count))
                     ELSE Some("0")
            ELSE None
      [] id = "CacheSize" -> OptionMap(stats.cache_size_mb, FormatMib)
      [] id = "MirrorUrl" -> stats.mirror_url
      [] id = "MirrorHealth" ->
            IF stats.mirror_url.some
            THEN IF stats.mirror_sync_age_hours.some
                 THEN Some("OK (last sync "
                          \o Fixed1(stats.mirror_sync_age_hours.v)
                          \o " hours)")
                 ELSE Some("Err - could not check sync status")
            ELSE Some("Err - no mirror found")
      [] id = "Disk" ->
            IF stats.disk_used_bytes.some /\ stats.disk_total_bytes.some
            THEN LET used == stats.disk_used_bytes.v
                     total == stats.disk_total_bytes.v
                 IN  Some(Fixed2(GibHundredths(used)) \o " GiB / "
                          \o Fixed2(GibHundredths(total)) \o " GiB ("
                          \o ToString(DiskPct(used, total)) \o "%)")
            ELSE None

\* map.insert(key, value): the key is added, or its value replaced
MapInsert(map, key, value) ==
    [k \in DOMAIN map \cup {key} |-> IF k = key THEN value ELSE map[k]]

\* A loop body that inserts the key whatever format_value returned.
JsonStepAlways(map, id, stats) ==
    MapInsert(map, config_key(id),
              IF format_value(id, stats).some
              THEN format_value(id, stats).v
              ELSE "null")

\* The body of the loop: `if let Some(value) = id.format_value(stats) {
\* map.insert(id.config_key().to_string(), Value::String(value)); }`
JsonStep(map, id, stats) ==
    IF format_value(id, stats).some
    THEN MapInsert(map, config_key(id), format_value(id, stats).v)
    ELSE map

\* `for id in stats::ALL_STAT_IDS { ... }` from the i-th id on
RECURSIVE JsonLoop(_, _, _)
JsonLoop(map, i, stats) ==
    IF i > Len(ALL_STAT_IDS)
    THEN map
    ELSE JsonLoop(JsonStep(map, ALL_STAT_IDS[i], stats), i + 1, stats)

\* The object stats_to_json_string serialises: to_string_pretty writes one
\* member for each key of the map, its value a JSON string.
stats_to_json(stats) == JsonLoop(EmptyMap, 1, stats)

OptionOf(S) == {None} \cup {Some(x) : x \in S}

\* The sizes given, in hundredths of a MiB
SizeValues == {1250}

\* The net sizes given: an upgrade may shrink the system
NetValues == {0 - 350}

\* The ages of the last update given, in seconds: one of each branch of
\* normalize_duration
UpdateAges == {1, 90, 7200, 90000}

\* The disk sizes given, in bytes
DiskUsed == {BYTES_PER_GIB \div 4}

DiskTotals == {0, BYTES_PER_GIB}

\* The statistics given to stats_to_json_string
StatsInputs ==
    [total_installed : {100, 1234},
     total_upgradable : {0, 5},
     days_since_last_update : OptionOf(UpdateAges),
     download_size_mb : OptionOf(SizeValues),
     total_installed_size_mb : OptionOf(SizeValues),
     net_upgrade_size_mb : OptionOf(NetValues),
     orphaned_packages : OptionOf({0, 3}),
     orphaned_size_mb : OptionOf({150}),
     cache_size_mb : OptionOf({204800}),
     mirror_url : OptionOf({"https://mirror.example/"}),
     mirror_sync_age_hours : OptionOf({15}),
     disk_used_bytes : OptionOf(DiskUsed),
     disk_total_bytes : OptionOf(DiskTotals)]

othersThanJson ==
    <<cacheVars, runVars, histVars, freshVars, ptyVars, ptyHist, cmdVars,
      trackerVars, stripVars, mirrorVars, transVars, newVars,
      getVars>>

\* One call of stats_to_json_string
StatsToJson ==
    /\ jpc = "ready"
    /\ json' = stats_to_json(jstats)
    /\ jpc' = "done"
    /\ UNCHANGED jstats
    /\ UNCHANGED othersThanJson

InitJson ==
    /\ InitSyncOff
    /\ InitPtyOff
    /\ InitCmdOff
    /\ InitTrackerOff
    /\ InitStripOff
    /\ InitMirrorOff
    /\ InitTransOff
    /\ jstats \in StatsInputs
    /\ json = EmptyMap
    /\ jpc = "ready"
    /\ InitNewOff
    /\ InitGetOff

NextJson ==
    \/ StatsToJson

SpecJson == InitJson /\ [][NextJson]_vars

\* ------------------------------------------------------------ DbCache::new
\* DbCache::new called again and again on one file system, with the path of
\* the target of the link looked at as well.  CacheNew of the headless sync
\* is this call on a system whose /var/lib/pacman/local exists.

\* Calls of DbCache::new in one run.
MaxNewCalls == 4

othersThanNew ==
    <<cacheVars, runVars, histVars, freshVars, ptyVars, ptyHist, cmdVars,
      trackerVars, stripVars, mirrorVars, transVars, jsonVars,
      getVars>>

\* LinkSeen that looks at the link itself.
LinkSeenNoFollow(link, target) == link

\* local_link.exists(): Path::exists follows the link, so a link whose
\* target is missing does not exist
LinkSeen(link, target) == link /\ target

\* One call of DbCache::new
DbCacheNew ==
    /\ newCalls < MaxNewCalls
    /\ newCalls' = newCalls + 1
    /\ IF ~hasCacheDir
         THEN \* Config::cache_dir()? is None
              /\ newResults' = Append(newResults, "None")
              /\ UNCHANGED <<dirThere, linkThere, linksMade>>
         ELSE \E mkdir_ok \in BOOLEAN, symlink_ok \in BOOLEAN :
                \* create_dir_all succeeds on a directory that is there
                /\ dirThere => mkdir_ok
                \* symlink() fails with EEXIST on a link that is there
                /\ linkThere => ~symlink_ok
                /\ IF ~mkdir_ok
                     THEN /\ newResults' = Append(newResults, "None")
                          /\ UNCHANGED <<dirThere, linkThere, linksMade>>
                     ELSE /\ dirThere' = TRUE
                          /\ IF LinkSeen(linkThere, targetThere)
                               THEN /\ newResults' = Append(newResults, "Some")
                                    /\ UNCHANGED <<linkThere, linksMade>>
                               ELSE IF symlink_ok
                                 THEN /\ linkThere' = TRUE
                                      /\ linksMade' = linksMade + 1
                                      /\ newResults' = Append(newResults, "Some")
                                 ELSE /\ newResults' = Append(newResults, "None")
                                      /\ UNCHANGED <<linkThere, linksMade>>
    /\ UNCHANGED <<hasCacheDir, targetThere>>
    /\ UNCHANGED othersThanNew

\* /var/lib/pacman/local is removed, or made, between two calls.
TargetChanges ==
    /\ newCalls < MaxNewCalls
    /\ targetThere' = ~targetThere
    /\ UNCHANGED <<hasCacheDir, dirThere, linkThere, linksMade, newCalls,
                   newResults>>
    /\ UNCHANGED othersThanNew

InitNew ==
    /\ InitSyncOff
    /\ InitPtyOff
    /\ InitCmdOff
    /\ InitTrackerOff
    /\ InitStripOff
    /\ InitMirrorOff
    /\ InitTransOff
    /\ InitJsonOff
    /\ hasCacheDir \in BOOLEAN
    /\ dirThere \in BOOLEAN
    /\ linkThere \in BOOLEAN
    /\ targetThere \in BOOLEAN
    /\ dirThere => hasCacheDir
    /\ linkThere => dirThere
    /\ linksMade = 0
    /\ newCalls = 0
    /\ newResults = <<>>
    /\ InitGetOff

NextNew ==
    \/ DbCacheNew
    \/ TargetChanges

SpecNew == InitNew /\ [][NextNew]_vars

\* --------------------------------------------------------------- get_stats
\* One call of get_stats, with the mirror probe on its own thread.  What the
\* gatherers find is drawn from the values below.

othersThanGet ==
    <<cacheVars, runVars, histVars, freshVars, ptyVars, ptyHist, cmdVars,
      trackerVars, stripVars, mirrorVars, transVars, jsonVars, newVars>>

\* The lists of stats a configuration may ask for.
RequestSets ==
    {{}, {"Installed"}, {"MirrorUrl"}, {"MirrorHealth"},
     {"MirrorHealth", "Installed", "Disk"}, StatIds}

\* The mirror of the system
MirrorUrls == {"https://mirror.example/"}

\* The ages check_mirror_sync may find, in tenths of an hour
ProbeAges == {15}

needs_upgrade_stats(req) ==
    req \cap {"Upgradable", "DownloadSize", "InstalledSize",
              "NetUpgradeSize"} # {}

needs_orphan_stats(req) == "OrphanedPackages" \in req

needs_mirror_health(req) == "MirrorHealth" \in req

needs_mirror_url(req) == req \cap {"MirrorUrl", "MirrorHealth"} # {}

needs_disk_stat(req) == "Disk" \in req

\* A step of the main flow from one place to the next that leaves the probe
\* alone.
GetStep(from, to) ==
    /\ gpc = from
    /\ gpc' = to
    /\ UNCHANGED <<requested, probe, probeUrl, probeOut>>
    /\ UNCHANGED othersThanGet

\* if needs_upgrade_stats(requested) { ... }
GetUpgradeStats ==
    /\ GetStep("upgrade", "orphans")
    /\ gstats' = IF needs_upgrade_stats(requested)
                   THEN [gstats EXCEPT !.total_upgradable = 5,
                                       !.download_size_mb = Some(1250),
                                       !.total_installed_size_mb = Some(1250),
                                       !.net_upgrade_size_mb = Some(0 - 350)]
                   ELSE gstats

\* if needs_orphan_stats(requested) { ... }
GetOrphans ==
    /\ GetStep("orphans", "mirror")
    /\ gstats' = IF needs_orphan_stats(requested)
                   THEN [gstats EXCEPT !.orphaned_packages = Some(3),
                                       !.orphaned_size_mb = Some(150)]
                   ELSE gstats

\* `let sync_handle = if needs_mirror_url(requested) { ... }`: the URL is
\* looked up, and with mirror health asked for the thread is spawned with a
\* clone of it
GetMirrorUrl ==
    /\ gpc = "mirror"
    /\ gpc' = "installed"
    /\ IF needs_mirror_url(requested)
         THEN \E url \in OptionOf(MirrorUrls) :
                /\ gstats' = [gstats EXCEPT !.mirror_url = url]
                /\ IF needs_mirror_health(requested)
                     THEN probe' = "spawned" /\ probeUrl' = url
                     ELSE UNCHANGED <<probe, probeUrl>>
         ELSE UNCHANGED <<gstats, probe, probeUrl>>
    /\ UNCHANGED <<requested, probeOut>>
    /\ UNCHANGED othersThanGet

GetInstalled ==
    /\ GetStep("installed", "last_update")
    /\ gstats' = IF "Installed" \in requested
                   THEN [gstats EXCEPT !.total_installed = 1234]
                   ELSE gstats

GetLastUpdate ==
    /\ GetStep("last_update", "cache_size")
    /\ gstats' = IF "LastUpdate" \in requested
                   THEN [gstats EXCEPT !.days_since_last_update = Some(7200)]
                   ELSE gstats

GetCacheSize ==
    /\ GetStep("cache_size", "disk")
    /\ gstats' = IF "CacheSize" \in requested
                   THEN [gstats EXCEPT !.cache_size_mb = Some(204800)]
                   ELSE gstats

\* if needs_disk_stat(requested) { if let Some((used, total)) = ... }
GetDisk ==
    /\ GetStep("disk", "version")
    /\ \E found \in BOOLEAN :
         gstats' = IF needs_disk_stat(requested) /\ found
                     THEN [gstats EXCEPT
                              !.disk_used_bytes = Some(BYTES_PER_GIB \div 4),
                              !.disk_total_bytes = Some(BYTES_PER_GIB)]
                     ELSE gstats

\* stats.pacman_version = get_pacman_version()
GetVersion ==
    /\ GetStep("version", "join")
    /\ gstats' = [gstats EXCEPT !.pacman_version = Some("7.0.0")]

\* JoinValue that loses the result of the thread.
JoinValueLost(state, value) == None

\* handle.join().ok().flatten(): the value the closure returned, or None
\* when the thread panicked
JoinValue(state, value) == IF state = "done" THEN value ELSE None

\* `if let Some((handle, sync_start)) = sync_handle { ... = handle.join()...
\* }`: join waits for the thread to end
GetJoin ==
    /\ gpc = "join"
    /\ IF probe = "none"
         THEN UNCHANGED gstats
         ELSE /\ probe \in {"done", "panicked"}
              /\ gstats' = [gstats EXCEPT !.mirror_sync_age_hours =
                                              JoinValue(probe, probeOut)]
    /\ gpc' = "returned"
    /\ UNCHANGED <<requested, probe, probeUrl, probeOut>>
    /\ UNCHANGED othersThanGet

\* The thread starts on its closure: `mirror_url_clone.as_ref().and_then(..)`
\* is None without a URL and calls check_mirror_sync with one
ProbeStart ==
    /\ probe = "spawned"
    /\ IF probeUrl.some
         THEN probe' = "checking" /\ UNCHANGED probeOut
         ELSE probe' = "done" /\ probeOut' = None
    /\ UNCHANGED <<gpc, requested, gstats, probeUrl>>
    /\ UNCHANGED othersThanGet

\* check_mirror_sync returns the age, or None, or panics
ProbeEnd ==
    /\ probe = "checking"
    /\ \/ probe' = "done" /\ probeOut' \in OptionOf(ProbeAges)
       \/ probe' = "panicked" /\ UNCHANGED probeOut
    /\ UNCHANGED <<gpc, requested, gstats, probeUrl>>
    /\ UNCHANGED othersThanGet

InitGet ==
    /\ InitSyncOff
    /\ InitPtyOff
    /\ InitCmdOff
    /\ InitTrackerOff
    /\ InitStripOff
    /\ InitMirrorOff
    /\ InitTransOff
    /\ InitJsonOff
    /\ InitNewOff
    /\ gpc = "upgrade"
    /\ requested \in RequestSets
    /\ gstats = StatsDefault
    /\ probe = "none"
    /\ probeUrl = None
    /\ probeOut = None

NextGet ==
    \/ GetUpgradeStats
    \/ GetOrphans
    \/ GetMirrorUrl
    \/ GetInstalled
    \/ GetLastUpdate
    \/ GetCacheSize
    \/ GetDisk
    \/ GetVersion
    \/ GetJoin
    \/ ProbeStart
    \/ ProbeEnd

SpecGet == InitGet /\ [][NextGet]_vars

\* -------------------------------------------------------------- SpecFresh
\* DbCache::is_fresh on enumerated file states.

\* Modification times around the clock and around each TTL: a tick ahead of
\* the clock, now, and for each TTL of t minutes an age of exactly t*60 s,
\* a tick more, a tick less than t*60+1 s, and t*60+1 s.
FreshSamples ==
    {Absent, StartTime + 1, StartTime}
        \cup {StartTime - t * SecsPerMin * TicksPerSec - d :
                t \in 1..MaxTtl, d \in {0, 1, TicksPerSec - 1, TicksPerSec}}

InitFresh ==
    /\ now = StartTime
    /\ ticks = 0
    /\ ttl \in 0..MaxTtl
    /\ sysdb = [f \in DbFiles |-> Absent]
    /\ cache \in [DbFiles -> FreshSamples]
    /\ dirExists = TRUE
    /\ linkExists = TRUE
    /\ syncedAt = Absent
    /\ InitRun
    /\ fpc = "ready"
    /\ fresh_result = FALSE
    /\ fchange = "none"
    /\ InitPtyOff
    /\ InitLaterOff

\* cache.is_fresh(ttl_minutes)
EvalFresh ==
    /\ fpc = "ready"
    /\ fresh_result' = IsFresh(cache, ttl, now)
    /\ fpc' = "evaluated"
    /\ UNCHANGED <<fchange, cacheVars, runVars, histVars, ptyVars, ptyHist>>
    /\ UNCHANGED laterVars

\* One of the three databases is removed from the cache.
RemoveDb ==
    /\ fpc = "evaluated"
    /\ fchange = "none"
    /\ \E f \in DbFiles : cache' = [cache EXCEPT ![f] = Absent]
    /\ fchange' = "removed"
    /\ fpc' = "ready"
    /\ UNCHANGED <<now, ticks, ttl, sysdb, dirExists, linkExists>>
    /\ UNCHANGED <<fresh_result, runVars, histVars, ptyVars, ptyHist>>
    /\ UNCHANGED laterVars

\* One of the three databases is given a modification time a whole second
\* past the TTL.
StaleDbFile ==
    /\ fpc = "evaluated"
    /\ fchange = "none"
    /\ \E f \in DbFiles :
         cache' = [cache EXCEPT
                     ![f] = now - (ttl * SecsPerMin + 1) * TicksPerSec]
    /\ fchange' = "staled"
    /\ fpc' = "ready"
    /\ UNCHANGED <<now, ticks, ttl, sysdb, dirExists, linkExists>>
    /\ UNCHANGED <<fresh_result, runVars, histVars, ptyVars, ptyHist>>
    /\ UNCHANGED laterVars

NextFresh ==
    \/ EvalFresh
    \/ RemoveDb
    \/ StaleDbFile

SpecFresh == InitFresh /\ [][NextFresh]_vars

\* ----------------------------------------------------------------- claims

\* The bytes written in RawPassthrough, in the order written.
RECURSIVE RawBytes(_)
RawBytes(o) ==
    IF o = <<>> THEN ""
    ELSE (IF Head(o).k = "raw" THEN Head(o).s ELSE "") \o RawBytes(Tail(o))

\* C1: the driver starts in LineFiltered; raw_mode becomes true only in a
\* prompt step, and once true it is true in every later state of the
\* session, whatever the child sends afterwards.
C1_RawPassthroughAbsorbing ==
    /\ [](ppc = "start" => ~raw_mode)
    /\ [][raw_mode => raw_mode']_vars
    /\ [][~raw_mode /\ raw_mode' => promptSteps' = promptSteps + 1]_vars

\* A session in RawPassthrough that has written, raw, bytes of the child that
\* hold another "[Y/n] ".
C1_Witness ==
    /\ raw_mode
    /\ promptSteps = 1
    /\ Contains(RawBytes(out), "[Y/n] ")
    /\ ppc = "returned"

\* C2: every byte of the child behind the answered prompt goes to the output
\* verbatim and in order: no character behind the prompt is taken through the
\* line buffer, the raw output is the child's output behind the prompt as far
\* as it has been read, and with every line of input read there is one prompt
\* step and one read of the input in the session.
C2_VerbatimAfterAnswer ==
    answeredAt > 0
      => /\ lineFed <= answeredAt
         /\ (chunk = ""
               => RawBytes(out) = SubSeq(emitted, answeredAt + 1, readCount))
         /\ (~stdinFailed => promptSteps <= 1 /\ stdinReads <= 1)

\* The child waits for a line that has not been sent, all it wrote has been
\* read and walked, and the driver is in its polling loop.
Stalled ==
    /\ ChildWaiting
    /\ ptyq = ""
    /\ chunk = ""
    /\ ppc \in {"loop", "read"}
    /\ ~stdinFailed

\* C3: the session never stalls with the child waiting on a question and the
\* driver polling: when the child waits for input and the driver has consumed
\* all of its output, a line of input has been forwarded.
C3_NeverStalls == ~Stalled

\* C11: run_pacman_pty returns an error when the child cannot be spawned and
\* when its read loop ended by a non-transient read error, and returns
\* success only when the session ended by the child's exit.
C11_ErrorOnSpawnOrReadFailure ==
    ppc = "returned"
      => /\ (ptyEnd = "none" => presult = "Err")
         /\ (ptyEnd = "read_error" => presult = "Err")
         /\ (presult = "Ok" => ptyEnd = "exit")

\* C12: when the effective user is not root, upgrade_system and
\* sync_databases return the authorization error, and no child was spawned,
\* run_pacman_pty was not entered, no stats were gathered or displayed, and
\* the cache is as it was.
C12_NotRootNoSpawn ==
    ~euid_root
      => /\ spawnCount = 0
         /\ ppc = "off"
         /\ ~palive
         /\ ~statsGathered
         /\ calcPath = "none"
         /\ displayed = "none"
         /\ cache = [f \in DbFiles |-> Absent]
         /\ ~dirExists
         /\ (cpc = "returned" => cresult = ErrNotRoot)

\* Both operations, called without root, have returned the error; the check
\* of run_pacman_sync is the one sync_databases returns from.
C12_Witness ==
    /\ ~euid_root
    /\ cpc = "returned"
    /\ cresult = ErrNotRoot
    /\ command = "sync_databases"

\* The line the tracker was given last.
LastLine == tlines[Len(tlines)]

\* The names but for the one given.
OtherNames(name) == DbNames \ {name}

\* The lines "<name> <n>%" of the known names, for n from 0 to 99.
SyncingLines ==
    {[line |-> name \o " " \o ToString(n) \o "%", name |-> name, n |-> n] :
       name \in DbNames, n \in 0..99}

\* C13: for every known name and every n from 0 to 99, the line "<name> <n>%"
\* given to any tracker state sets that name's state to Syncing(n) and leaves
\* the states of the two other names as they were.
C13_PercentLineSetsSyncing ==
    tlines # <<>>
      => \A e \in SyncingLines :
           LastLine = e.line
             => /\ progress[e.name] = Syncing(e.n)
                /\ \A o \in OtherNames(e.name) :
                     progress[o] = prev_progress[o]

\* A percentage line has taken a name that was Complete back to Syncing, with
\* another name Complete before and after.
C13_Witness ==
    /\ tlines # <<>>
    /\ LastLine = "core 55%"
    /\ prev_progress["core"] = Complete
    /\ progress["core"] = Syncing(55)
    /\ progress["extra"] = Complete

\* The lines "<name> <n>%" of the known names, for some n of 100 and more.
CompleteLines ==
    {[line |-> name \o " " \o ToString(n) \o "%", name |-> name, n |-> n] :
       name \in DbNames, n \in {100, 101, 255, 256, 1000}}

\* The leading whitespace-delimited token of a line, "" when it has none.
LeadingToken(line) ==
    LET parts == split_whitespace(line) IN
    IF parts = <<>> THEN "" ELSE parts[1]

\* C14: for every known name and every n of 100 and more, the line
\* "<name> <n>%" sets that name's state to Complete, and so does every line
\* that contains "is up to date" and whose leading token is that name.
C14_CompleteLines ==
    tlines # <<>>
      => /\ \A e \in CompleteLines :
              LastLine = e.line => progress[e.name] = Complete
         /\ \A name \in DbNames :
              Contains(LastLine, "is up to date")
                  /\ LeadingToken(LastLine) = name
                => progress[name] = Complete

\* The last whitespace-delimited token of a line, "" when it has none.
TrailingToken(line) ==
    LET parts == split_whitespace(line) IN
    IF parts = <<>> THEN "" ELSE parts[Len(parts)]

\* "<unsigned integer>%": digits, at least one, and a percent sign.
WellFormedPercent(tok) ==
    /\ Len(tok) >= 2
    /\ EndsWith(tok, "%")
    /\ \A i \in 1..(Len(tok) - 1) : IsDigit(SubSeq(tok, i, i))

\* C15: update_from_line leaves the three states as they were on every line
\* whose leading token (escapes stripped) is not exactly core, extra or
\* multilib, and on every line without "is up to date" whose last token is
\* not a well-formed "<unsigned integer>%".
C15_UnknownLineIsNoOp ==
    tlines # <<>>
      => /\ LeadingToken(strip_ansi(LastLine)) \notin DbNames
              => progress = prev_progress
         /\ ~Contains(LastLine, "is up to date")
                /\ ~WellFormedPercent(TrailingToken(strip_ansi(LastLine)))
              => progress = prev_progress

Untouched == [state |-> "Untouched"]

\* What one line, on its own, sets a target to: the state the target has
\* after the line whatever it had before, or Untouched.
LineEffect ==
    [line \in TrackerLines |->
       [t \in DbNames |->
          LET a == update_from_line([n \in DbNames |-> Complete], line)[t]
              b == update_from_line([n \in DbNames |-> Syncing(7)], line)[t]
          IN IF a = b THEN a ELSE Untouched]]

\* The state set by the last of the lines that sets the target, Syncing(0)
\* when none does.
RECURSIVE LastSet(_, _)
LastSet(t, lines) ==
    IF lines = <<>> THEN Syncing(0)
    ELSE IF LineEffect[lines[Len(lines)]][t] # Untouched
           THEN LineEffect[lines[Len(lines)]][t]
    ELSE LastSet(t, SubSeq(lines, 1, Len(lines) - 1))

\* A state as the claim renders it.
Rendered(st) == IF st = Complete THEN CheckMark ELSE ToString(st.pct) \o "%"

Scenario == <<"core 10%", "core 55%", "core is up to date", "extra 30%">>

\* C16: after any sequence of update_from_line calls from the initial state,
\* each target's state is the one set by the last line that sets that target
\* (Syncing(0) if none), format() renders core, extra, multilib in that order
\* with Syncing(p) as "<p>%" and Complete as the check mark, and the scenario
\* renders "core v | extra 30% | multilib 0%" (v for the check mark).
C16_LastLineWinsAndFormat ==
    /\ \A t \in DbNames : progress[t] = LastSet(t, tlines)
    /\ format(progress)
         = "core " \o Rendered(progress["core"]) \o " | extra "
             \o Rendered(progress["extra"]) \o " | multilib "
             \o Rendered(progress["multilib"])
    /\ tlines = Scenario
         => /\ progress = [core |-> Complete, extra |-> Syncing(30),
                           multilib |-> Syncing(0)]
            /\ format(progress) = "core v | extra 30% | multilib 0%"

\* The scenario has been fed.
C16_Witness ==
    /\ tlines = Scenario
    /\ format(progress) = "core v | extra 30% | multilib 0%"

\* Where the CSI sequence whose parameters start at s ends: what follows its
\* final character, or nothing when no final character comes.
RECURSIVE BehindCsi(_)
BehindCsi(s) ==
    IF s = "" THEN ""
    ELSE IF Head(s) \in CsiFinal THEN Tail(s)
    ELSE BehindCsi(Tail(s))

\* Where the OSC sequence whose text starts at s ends: what follows BEL or
\* ESC and a backslash, or nothing when neither comes.
RECURSIVE BehindOsc(_)
BehindOsc(s) ==
    IF s = "" THEN ""
    ELSE IF Head(s) = BEL THEN Tail(s)
    ELSE IF StartsWith(s, ESC \o "\\") THEN Tail(Tail(s))
    ELSE BehindOsc(Tail(s))

\* The text without its sequences, as the claim describes them.
RECURSIVE WithoutSequences(_)
WithoutSequences(s) ==
    IF s = "" THEN ""
    ELSE IF Head(s) # ESC THEN Head(s) \o WithoutSequences(Tail(s))
    ELSE IF Len(s) = 1 THEN ""
    ELSE IF Head(Tail(s)) = "[" THEN WithoutSequences(BehindCsi(Tail(Tail(s))))
    ELSE IF Head(Tail(s)) = "]" THEN WithoutSequences(BehindOsc(Tail(Tail(s))))
    ELSE WithoutSequences(Tail(Tail(s)))

\* C17: strip_ansi removes every CSI sequence (to its final character), every
\* OSC sequence (to BEL or ESC and a backslash) and every two-character
\* escape, emits every other character unchanged and in order, and consumes
\* an unterminated sequence to the end of the input.
C17_StripRemovesSequences ==
    sa_pc = "done" => sa_out = WithoutSequences(sa_in)

\* An integer as text: digits, at least one, behind an optional sign.
IsIntegerText(s) ==
    LET digits == IF s # "" /\ Head(s) \in {"+", "-"} THEN Tail(s) ELSE s IN
    /\ digits # ""
    /\ \A i \in 1..Len(digits) : IsDigit(SubSeq(digits, i, i))

\* C18: check_mirror_sync sends at most two requests per call, the second
\* exactly when the first failed and never when the first gave a response;
\* when the fetch failed twice, or the status is not success, or the body is
\* not an integer, the call returns None (and it returns in every case: with
\* None or with an age that is not negative).
C18_RetryOnce ==
    /\ Len(sends) <= 2
    /\ Len(sends) = 2 => sends[1] = "Err"
    /\ (Len(sends) >= 1 /\ sends[1] = "Ok") => Len(sends) = 1
    /\ (mpc \in {"status", "failed", "returned"}
          /\ Len(sends) >= 1 /\ sends[1] = "Err")
         => Len(sends) = 2
    /\ mpc = "returned"
         => /\ mresult \in {MirrorNone} \cup {MirrorSome(a) : a \in 0..mnow + 5}
            /\ (\/ sends = <<>>
                \/ sends[Len(sends)] = "Err"
                \/ response.status \notin 200..299
                \/ ~IsIntegerText(Trim(response.body)))
                 => mresult = MirrorNone

\* A call that sent two requests, the first failed and the second answered
\* with a timestamp, and returned an age.
C18_Witness ==
    /\ mpc = "returned"
    /\ sends = <<"Err", "Ok">>
    /\ mresult = MirrorSome(SecsPerHour)

\* C19: in calculate_upgrade_stats, on every path after trans_init succeeded
\* trans_release is called exactly once before the function returns; no path
\* returns with the transaction held, and no path releases a transaction
\* that was never initialised.
C19_TransReleasedOnce ==
    /\ trans.releases <= trans.inits
    /\ trans.stray = 0
    /\ tpc = "returned"
         => /\ ~trans.held
            /\ trans.releases = trans.inits
            /\ trans.inits <= 1

\* A call that returned the default after sync_sysupgrade or trans_prepare
\* failed, with the transaction initialised and released once.
C19_Witness ==
    /\ tpc = "returned"
    /\ tresult = UpgradeStatsDefault
    /\ trans = [held |-> FALSE, inits |-> 1, releases |-> 1, stray |-> 0]

\* The fields the arm of format_value for a stat reads are not all given: the
\* stat's underlying value is absent.
UnderlyingAbsent(id, stats) ==
    CASE id = "Title" -> TRUE
      [] id = "Installed" -> FALSE
      [] id = "Upgradable" -> FALSE
      [] id = "LastUpdate" -> ~stats.days_since_last_update.some
      [] id = "DownloadSize" -> ~stats.download_size_mb.some
      [] id = "InstalledSize" -> ~stats.total_installed_size_mb.some
      [] id = "NetUpgradeSize" -> ~stats.net_upgrade_size_mb.some
      [] id = "OrphanedPackages" -> ~stats.orphaned_packages.some
      [] id = "CacheSize" -> ~stats.cache_size_mb.some
      [] id = "MirrorUrl" -> ~stats.mirror_url.some
      [] id = "MirrorHealth" ->
            ~stats.mirror_url.some \/ ~stats.mirror_sync_age_hours.some
      [] id = "Disk" ->
            ~stats.disk_used_bytes.some \/ ~stats.disk_total_bytes.some

HasKey(id) == config_key(id) \in DOMAIN json

\* The object has the key of a stat exactly when format_value returns a
\* value for it, and the value is that text.
KeysAreFormatValues ==
    \A id \in StatIds :
        /\ HasKey(id) <=> format_value(id, jstats).some
        /\ HasKey(id) => json[config_key(id)] = format_value(id, jstats).v

\* installed and upgradable are there, the decimal count as a string.
CountsPresent ==
    /\ "installed" \in DOMAIN json
    /\ json["installed"] = ToString(jstats.total_installed)
    /\ "upgradable" \in DOMAIN json
    /\ json["upgradable"] = ToString(jstats.total_upgradable)

C21_StdinOnlyInPromptStep ==
    [][stdinReads' # stdinReads
         => /\ ppc = "chars"
            /\ IsPrompt(line_buffer \o Head(chunk))
            /\ stdinReads' = stdinReads + 1
            /\ Len(out') > Len(out)
            /\ out'[Len(out')] = [k |-> "prompt",
                                  s |-> line_buffer \o Head(chunk)]
            /\ line_buffer' = ""
            /\ (~stdinFailed' => childIn' = childIn + 1 /\ raw_mode')]_vars

\* C22: the headless sync reports success only once the child is dead and
\* nothing the child wrote is left unread: the trailing partial line has been
\* fed to the tracker and no output of the child is still in the terminal.
C22_SuccessOnlyWhenDrained ==
    sync_success
      => /\ ~childAlive
         /\ hpty = ""
         /\ (sline_buffer # ""
               => fed # <<>> /\ fed[Len(fed)] = sline_buffer)

\* The fixed noise markers.
NoiseMarkers ==
    {"Total Download Size:", "Total Installed Size:", "Net Upgrade Size:",
     "resolving dependencies", "looking for conflicting packages",
     ":: Starting full system upgrade..."}

\* The line is not blank behind its escape sequences and holds no marker.
Survives(line) ==
    LET text == Trim(strip_ansi(line)) IN
    /\ text # ""
    /\ \A m \in NoiseMarkers : ~Contains(text, m)

\* A text without its carriage returns.
RECURSIVE WithoutCr(_)
WithoutCr(text) ==
    IF text = "" THEN ""
    ELSE (IF Head(text) = "\r" THEN "" ELSE Head(text))
             \o WithoutCr(Tail(text))

\* The place of the first line feed of a text that has one.
FirstLf(text) ==
    CHOOSE i \in 1..Len(text) :
        /\ SubSeq(text, i, i) = "\n"
        /\ \A j \in 1..(i - 1) : SubSeq(text, j, j) # "\n"

\* The completed lines of a text, in order: what stands before each line
\* feed, without the carriage returns.
RECURSIVE CompletedLines(_)
CompletedLines(text) ==
    IF ~Contains(text, "\n") THEN <<>>
    ELSE <<WithoutCr(SubSeq(text, 1, FirstLf(text) - 1))>>
             \o CompletedLines(SubSeq(text, FirstLf(text) + 1, Len(text)))

\* The surviving lines of a sequence of lines, as println! writes them.
RECURSIVE SurvivorsPrinted(_)
SurvivorsPrinted(lines) ==
    IF lines = <<>> THEN <<>>
    ELSE (IF Survives(Head(lines)) THEN <<PrintLine(Head(lines))>> ELSE <<>>)
             \o SurvivorsPrinted(Tail(lines))

\* C23: with the filter on, in LineFiltered mode, a completed line (the driver
\* takes the line feed from the chunk) is written
\* exactly when it is non-empty after escape stripping and trimming and holds
\* none of the noise markers; and whenever the driver is between two reads,
\* before any prompt, the output is the surviving lines among the completed
\* lines of what has been read, in the child's order.
C23_FilteredLines ==
    /\ [][/\ filter /\ ~raw_mode
           /\ ppc = "chars" /\ Head(chunk) = "\n" /\ chunk' = Tail(chunk)
            => out' = IF Survives(line_buffer)
                        THEN Append(out, PrintLine(line_buffer))
                        ELSE out]_vars
    /\ [](filter /\ ~raw_mode /\ promptSteps = 0 /\ ppc \in {"loop", "read"}
            => out = SurvivorsPrinted(
                         CompletedLines(SubSeq(emitted, 1, readCount))))

\* The filtered driver has read all of a child's output that holds escape
\* sequences, a banner and a blank line, and has written the one line left.
C23_Witness ==
    /\ filter
    /\ ~raw_mode
    /\ ppc = "loop"
    /\ readCount = Len(emitted)
    /\ Contains(emitted, ESC)
    /\ Contains(emitted, ":: Starting full system upgrade...")
    /\ out = <<PrintLine(" there is nothing to do")>>

\* The style reset, as written behind the loop.
StyleReset == [k |-> "reset", s |-> ESC \o "[0m"]

\* The places of the output where the style reset was written.
ResetsWritten == {i \in 1..Len(out) : out[i].k = "reset"}

\* C24: however the read loop was left (the child's exit in either mode, or
\* a read error), the style reset is the last output of the session and is
\* written exactly once, and a trailing line buffer that is not empty and
\* passes the filter is written right before it; no reset is written before
\* the loop is left.
C24_TrailingLineThenReset ==
    /\ [][ppc # "returned" /\ ppc' = "returned" /\ ptyEnd # "none"
            => out' = out
                   \o (IF line_buffer # "" /\ (filter => Survives(line_buffer))
                         THEN <<PrintLine(line_buffer)>> ELSE <<>>)
                   \o <<StyleReset>>]_vars
    /\ [](ppc = "returned" /\ ptyEnd # "none"
            => /\ out # <<>>
               /\ out[Len(out)] = StyleReset
               /\ Cardinality(ResetsWritten) = 1)
    /\ [](ppc # "returned" => ResetsWritten = {})

\* A session in LineFiltered mode was ended by a read error in the middle of
\* a line that passes the filter: the line and then the reset were written.
C24_Witness ==
    /\ ppc = "returned"
    /\ ptyEnd = "read_error"
    /\ filter
    /\ ~raw_mode
    /\ line_buffer # ""
    /\ Len(out) >= 2
    /\ out[Len(out) - 1] = PrintLine(line_buffer)
    /\ out[Len(out)] = StyleReset

\* The LineAssembler rule applied to a text: a line feed emits the line that
\* was accumulated, an empty one too, and clears the buffer; a carriage
\* return is dropped; any other character is appended.
RECURSIVE Assemble(_, _)
Assemble(st, text) ==
    IF text = "" THEN st
    ELSE IF Head(text) = "\n"
           THEN Assemble([buf |-> "", lines |-> Append(st.lines, st.buf)],
                         Tail(text))
    ELSE IF Head(text) = "\r" THEN Assemble(st, Tail(text))
    ELSE Assemble([buf |-> st.buf \o Head(text), lines |-> st.lines],
                  Tail(text))

\* The driver of run_pacman_pty takes the next character of the chunk.
TakesChar == ppc = "chars" /\ chunk' = Tail(chunk)

\* The headless loop takes bytes from the terminal.
TakesBytes == pc = "read" /\ Len(hpty') < Len(hpty)

BytesTaken == SubSeq(hpty, 1, Len(hpty) - Len(hpty'))

\* C25: in the interactive and in the headless read loop the line buffer
\* follows the LineAssembler rule: a line feed emits the accumulated line,
\* an empty one too, and clears the buffer; a carriage return neither emits
\* nor clears; any other character is appended.
C25_LineAssemblerRule ==
    /\ [][TakesChar
            => line_buffer' = Assemble([buf |-> line_buffer, lines |-> <<>>],
                                       Head(chunk)).buf]_vars
    /\ [][TakesBytes
            => LET st == Assemble([buf |-> sline_buffer, lines |-> <<>>],
                                  BytesTaken)
               IN  sline_buffer' = st.buf /\ fed' = fed \o st.lines]_vars

\* The places of the line feeds and carriage returns of a text.
Terminators(text) ==
    {i \in 1..Len(text) : SubSeq(text, i, i) \in {"\n", "\r"}}

\* What stands behind the last terminator of a text.
BehindLastTerminator(text) ==
    SubSeq(text,
           1 + (CHOOSE m \in Terminators(text) \cup {0} :
                    \A i \in Terminators(text) : i <= m),
           Len(text))

\* The pieces of a text that end at a terminator and are not empty, in
\* order, from the given place on.
RECURSIVE PiecesFrom(_, _)
PiecesFrom(text, start) ==
    IF \A i \in Terminators(text) : i < start THEN <<>>
    ELSE LET t == CHOOSE m \in Terminators(text) :
                      /\ m >= start
                      /\ \A i \in Terminators(text) : i >= start => m <= i
         IN  (IF t > start THEN <<SubSeq(text, start, t - 1)>> ELSE <<>>)
                 \o PiecesFrom(text, t + 1)

\* C25 as the code has it.  Interactive loop: a line feed hands the
\* accumulated line, an empty one too, to the filter and clears the buffer; a
\* carriage return changes nothing; any other character is appended, and the
\* buffer is cleared instead when it has come to have the shape of a prompt.
\* Headless loop: a line feed and a carriage return both end the line; the
\* line is fed to the tracker if it is not empty, and the buffer is cleared.
C25_LineBufferRules ==
    /\ [][TakesChar /\ Head(chunk) = "\n"
            => /\ line_buffer' = ""
               /\ out' = IF should_print(line_buffer, filter)
                           THEN Append(out, PrintLine(line_buffer))
                           ELSE out]_vars
    /\ [][TakesChar /\ Head(chunk) = "\r"
            => line_buffer' = line_buffer /\ out' = out]_vars
    /\ [][TakesChar /\ Head(chunk) \notin {"\n", "\r"}
            => line_buffer' = IF IsPrompt(line_buffer \o Head(chunk))
                                THEN ""
                                ELSE line_buffer \o Head(chunk)]_vars
    /\ [][TakesBytes
            => /\ sline_buffer' =
                      BehindLastTerminator(sline_buffer \o BytesTaken)
               /\ fed' = fed \o PiecesFrom(sline_buffer \o BytesTaken, 1)]_vars

\* The headless loop has taken a line that ended in a carriage return and
\* has fed it to the tracker.
C25_Witness ==
    /\ pc = "alive"
    /\ lastRead = "data"
    /\ fed = <<"b">>
    /\ sline_buffer = ""
    /\ hpty = ""

\* copy_system_dbs runs.
CopyRuns == pc = "copy" /\ pc' = "spawn"

\* The cached copy of a system database is missing or strictly older.
MissingOrOlder(f) ==
    /\ sysdb[f] # Absent
    /\ (cache[f] = Absent \/ cache[f] < sysdb[f])

\* C26: copy_system_dbs copies a system database exactly when the cached
\* copy is missing or strictly older than the source, and the copy has the
\* source's modification time, not the time of the copy; a cached file that
\* changes had a strictly newer source; and right after a run no file is left
\* that a second run would copy.
C26_CopyOnlyNewer ==
    /\ [][CopyRuns
            => \A f \in DbFiles :
                 /\ MissingOrOlder(f) => cache'[f] = sysdb[f]
                 /\ ~MissingOrOlder(f) => cache'[f] = cache[f]
                 /\ cache'[f] # cache[f]
                      => /\ sysdb[f] # Absent
                         /\ (cache[f] # Absent => sysdb[f] > cache[f])]_vars
    /\ [](pc = "spawn" => \A f \in DbFiles : ~MissingOrOlder(f))

\* A copy has run on a cache that lacked multilib.db and whose other files
\* were newer than the system's: multilib.db came in with the system's time,
\* long before the copy, and the others stayed.
C26_Witness ==
    /\ pc = "spawn"
    /\ copied
    /\ cacheAtStart["multilib.db"] = Absent
    /\ cacheAtStart["core.db"] > sysdb["core.db"]
    /\ sysdb["core.db"] # Absent
    /\ cache["multilib.db"] = sysdb["multilib.db"]
    /\ cache["multilib.db"] # Absent
    /\ cache["multilib.db"] < now
    /\ cache["core.db"] = cacheAtStart["core.db"]

\* DbCache::new is called.
NewCalled == newCalls' = newCalls + 1

\* C27: the local symlink is made at most once, and every call of
\* DbCache::new made while the symlink is there, whether its target is there
\* or not, succeeds and leaves the symlink and the cache directory as they
\* were.
C27_NewIdempotent ==
    /\ [](linksMade <= 1)
    /\ [][NewCalled /\ linkThere
            => /\ newResults' = Append(newResults, "Some")
               /\ linkThere' = linkThere
               /\ dirThere' = dirThere
               /\ linksMade' = linksMade]_vars

\* The places of get_stats behind the spawn of the probe where local stats
\* are gathered.
RemainingPlaces ==
    {"installed", "last_update", "cache_size", "disk", "version"}

\* C28: with mirror health asked for, the probe is started where the mirror
\* URL is looked up, before the remaining local stats are gathered, and
\* get_stats returns only when the thread has ended; the age returned is
\* what the probe returned, unknown when it failed or panicked; and no step
\* of the probe writes a field of the result.
C28_ProbeJoinedBeforeReturn ==
    /\ [](needs_mirror_health(requested) /\ gpc \in RemainingPlaces \cup {"join"}
            => probe # "none")
    /\ [][probe = "none" /\ probe' # "none"
            => gpc = "mirror" /\ gpc' = "installed"]_vars
    /\ [](needs_mirror_health(requested) /\ gpc = "returned"
            => /\ probe \in {"done", "panicked"}
               /\ gstats.mirror_sync_age_hours =
                      IF probe = "done" THEN probeOut ELSE None)
    /\ [][probe' # probe /\ probe # "none" => gstats' = gstats]_vars
    /\ [](~needs_mirror_health(requested)
            => probe = "none" /\ gstats.mirror_sync_age_hours = None)

\* get_stats has returned the age the probe found, together with local
\* stats.
C28_Witness ==
    /\ gpc = "returned"
    /\ probe = "done"
    /\ probeOut = Some(15)
    /\ gstats.mirror_sync_age_hours = Some(15)
    /\ gstats.total_installed = 1234

\* The state of a target is Complete, or Syncing with a percentage from 0 to
\* 99.
InRange(st) ==
    \/ st = Complete
    \/ /\ st.state = "Syncing"
       /\ st.pct \in 0..99

\* C29: in every tracker state each of the three targets is Complete or
\* Syncing(p) with p from 0 to 99, whatever lines were given.
C29_PercentInRange ==
    /\ DOMAIN progress = DbNames
    /\ \A n \in DbNames : InRange(progress[n])

\* The tracker took "extra 100%" while extra was at 30 and multilib at 99:
\* extra is Complete, not Syncing(100).
C29_Witness ==
    /\ tlines # <<>>
    /\ LastLine = "extra 100%"
    /\ prev_progress["extra"] = Syncing(30)
    /\ progress["extra"] = Complete
    /\ progress["multilib"] = Syncing(99)

\* C30: the output of strip_ansi holds no ESC; an input without ESC comes out
\* as it went in; and strip_ansi applied to its own output changes nothing.
C30_StripIdempotent ==
    sa_pc = "done"
      => /\ ~Contains(sa_out, ESC)
         /\ (~Contains(sa_in, ESC) => sa_out = sa_in)
         /\ strip_ansi(sa_out) = sa_out

\* strip_ansi has cut an OSC sequence at an ESC and left text that looks
\* like the rest of a sequence.
C30_Witness ==
    /\ sa_pc = "done"
    /\ Contains(sa_in, ESC \o "]")
    /\ sa_out = "[0mtext"

LoopFailures == {"spawn_failure", "alive_error", "read_error"}

Returned == pc \in {"done", "returned"}

\* C4: touch (mark_fresh) runs only after the headless sync loop ended with
\* success: whenever touch has run, sync_success holds and the loop ended by
\* the child's exit; in a run ended by spawn failure, liveness-check error or
\* non-transient read error touch never runs, and from the moment the run
\* has so ended no cached file's modification time changes.
C4_TouchOnlyAfterSuccess ==
    /\ [](touched => sync_success /\ endReason = "child_exit")
    /\ [](endReason \in LoopFailures => ~touched /\ syncedAt = Absent)
    /\ [][endReason' \in LoopFailures => cache' = cache]_vars

\* A run ended by a read error after the child had replaced databases of the
\* cache, which touch would have marked.
C4_Witness ==
    /\ pc = "returned"
    /\ endReason = "read_error"
    /\ childWrote
    /\ \A f \in DbFiles : cache[f] = 0

\* C5: in the headless loop a WouldBlock or Interrupted read never ends the
\* loop (the loop is back at its liveness check, with no end reason), and any
\* other read error ends it with failure: no success, no touch, no stats
\* computed from the cache, and the default UpgradeStats returned.
C5_ReadErrors ==
    /\ lastRead \in {"WouldBlock", "Interrupted"}
         => pc = "alive" /\ endReason = "none"
    /\ lastRead = "Other"
         => /\ endReason = "read_error"
            /\ pc \in {"after", "done", "returned"}
            /\ ~sync_success
            /\ ~touched
            /\ calcPath = "none"
            /\ (Returned => result = UpgradeStatsDefault)

\* A run that returned after a non-transient read error, with every database
\* present in the cache and a line already fed to the tracker.
C5_Witness ==
    /\ pc = "returned"
    /\ lastRead = "Other"
    /\ result = UpgradeStatsDefault
    /\ fed # <<>>
    /\ \A f \in DbFiles : cache[f] # Absent

\* C6: when is_fresh answered true at the start of the invocation, the run
\* spawns no child, copies no system database and leaves every cached file's
\* modification time as it was; copy and spawn happen only on a stale cache.
C6_FreshSkipsSync ==
    /\ freshAtStart
         => /\ ~spawned
            /\ ~copied
            /\ ~touched
            /\ cache = cacheAtStart
            /\ pc \in {"calc_cached", "done", "returned"}
    /\ (copied \/ spawned) => ~freshAtStart

\* An invocation on a fresh cache that returned sizes.
C6_Witness ==
    /\ pc = "returned"
    /\ freshAtStart
    /\ result.sizes
    /\ calcPath = CachePath

\* C7: for every ttl_minutes >= 1, after a sync round that ended with success
\* and touch, is_fresh(ttl_minutes) is true for as long as no more than
\* ttl_minutes*60 seconds have passed since the touch, whatever the child
\* left on the cached files.
C7_FreshAfterTouch ==
    (/\ ttl >= 1
     /\ touched
     /\ now - syncedAt <= ttl * SecsPerMin * TicksPerSec)
        => IsFresh(cache, ttl, now)

\* C8 as claimed: is_fresh(ttl) is true exactly when the three databases
\* exist and each has a modification time within ttl*60 seconds of now.
WithinTtl(mtime) ==
    /\ mtime - now <= ttl * SecsPerMin * TicksPerSec
    /\ now - mtime <= ttl * SecsPerMin * TicksPerSec

C8_FreshIffWithinTtl ==
    (fpc = "evaluated" /\ ttl >= 1)
        => (fresh_result
              <=> \A f \in DbFiles : cache[f] # Absent /\ WithinTtl(cache[f]))

\* C8, amended: for every ttl >= 1, is_fresh(ttl) is true exactly when the
\* three databases exist and each has a modification time that is not later
\* than now and less than ttl*60 + 1 seconds old (its age in whole seconds is
\* at most ttl*60); after one of the three is removed, or made ttl*60 + 1
\* seconds old, it is false.
NotOlderThanTtl(mtime) ==
    /\ mtime <= now
    /\ now - mtime < (ttl * SecsPerMin + 1) * TicksPerSec

C8_FreshIffWholeSecondsWithinTtl ==
    (fpc = "evaluated" /\ ttl >= 1)
        => /\ fresh_result
                <=> \A f \in DbFiles :
                        cache[f] # Absent /\ NotOlderThanTtl(cache[f])
           /\ fchange \in {"removed", "staled"} => ~fresh_result

\* is_fresh was true of three databases, one has been made stale, and is_fresh
\* has answered again.
C8_Witness ==
    /\ fpc = "evaluated"
    /\ ttl >= 1
    /\ fchange = "staled"
    /\ ~fresh_result
    /\ \E f \in DbFiles : \A g \in DbFiles \ {f} : cache[g] = now

\* C9: is_fresh(0) is false in every file state, the three databases present
\* and modified just now included, and the caller then takes the resync path.
C9_ZeroTtlNeverFresh ==
    (fpc = "evaluated" /\ ttl = 0)
        => ~fresh_result /\ AfterFreshCheck(fresh_result) = "copy"

\* is_fresh(0) has answered on three databases modified at this very tick.
C9_Witness ==
    /\ fpc = "evaluated"
    /\ ttl = 0
    /\ \A f \in DbFiles : cache[f] = now

\* C10: when DbCache::new fails, the invocation falls back to the stats
\* computed against the live system database path.
C10_FallbackToSystemPath ==
    (newFailed /\ Returned) => calcPath = SystemPath

====
